---- MODULE Spec2Model ----
(***************************************************************************)
(* A model of agentguard's Transaction Vetting Pipeline:                   *)
(*   SpendingLimits      (the spend ledger),                               *)
(*   ProgramAllowlist    (the program registry),                           *)
(*   TransactionFirewall (the vetting pipeline over both and the           *)
(*                        pre-flight simulator).                           *)
(* Amounts are lamports (non-negative integers), the wall clock is a       *)
(* counter of ticks, a calendar date is the number of the day a tick       *)
(* falls in, and a program id is a short sequence of characters.           *)
(***************************************************************************)
EXTENDS Integers, Sequences, FiniteSets, TLC

VARIABLES
    now,             \* the wall clock read by new Date(), in ticks
    maxDaily,        \* SpendingLimits.maxDaily
    maxPerTx,        \* SpendingLimits.maxPerTx
    dailySpend,      \* SpendingLimits.dailySpend
    lastResetDate,   \* SpendingLimits.lastResetDate
    approved,        \* the caller's side: the amount the last check allowed and that is not yet recorded
    seqUse,          \* the caller's side: every recordSpend so far recorded an amount approved by the check before it
    allowlist,       \* ProgramAllowlist.allowlist: null, or the set of lower-cased ids
    blocklist,       \* ProgramAllowlist.blocklist: the set of lower-cased ids
    allowSystemPrograms, \* ProgramAllowlist.allowSystemPrograms
    blockedIds,      \* the ids given as config.blockedPrograms or to addToBlocklist, as given
    allowedIds,      \* the ids given as config.allowedPrograms or accepted by addToAllowlist, as given
    payerPublicKey,  \* TransactionFirewall.payerPublicKey is set
    requireSimulation, \* TransactionFirewall.requireSimulation
    pc,              \* where the running TransactionFirewall.check is suspended ("idle": none runs)
    tx,              \* the transaction of the running (or last) check
    programChecks,   \* check's local programChecks
    estimatedSpend,  \* check's local estimatedSpend
    warnings,        \* check's local warnings
    attempt,         \* simulateWithRetry's loop counter i
    trace,           \* the calls the running check has made so far, in order
    authority,       \* the ledger: the principal's AuditAuthority account
    events,          \* the ledger: the principal's SecurityEvent accounts
    initialized,     \* OnchainAuditLogger.initialized
    lpc,             \* per call slot: where the logger's call is suspended ("idle": none runs)
    nested,          \* per call slot: initialize was called by logSecurityEvent
    eventIndex,      \* per call slot: the local eventIndex (the argument, for closeEvent)
    lret,            \* how the logger's last call to end ended
    history,         \* the logSecurityEvent calls that succeeded, in order
    closed,          \* the indices closeEvent has closed
    serialized,      \* no two calls of the logger have been in flight together
    authorityPda,    \* per logger: OnchainAuditLogger.authorityPda (with authorityBump), or null
    derived,         \* the address derivations made so far
    accounts,        \* the ledger: per address of a trail, the account stored there
    loggerInitialized, \* per logger: OnchainAuditLogger.initialized
    logged,          \* the event account last written, with the details it was logged with
    dryRun,          \* GuardedAgentConfig.dryRun
    hasOnBlocked,    \* GuardedAgentConfig.onBlocked is set
    wpc,             \* per call slot: where the wrapper's call is suspended ("idle": none runs)
    wcall,           \* per call slot: the arguments and locals of the call
    ran,             \* per call slot: the call has invoked its action (the kit method, or fn)
    notified,        \* per call slot: the onBlocked invocation the call has made, if any
    wret,            \* per call slot: the GuardedAction the last call returned
    auditLog,        \* the entries of guard.audit (the local AuditLogger), in order
    calls,           \* the number of wrapper calls made
    usedOps,         \* the wrapper methods called so far
    wserial,         \* no two wrapper calls have been in flight together
    gpc,             \* where AgentGuard.checkTransaction is suspended ("idle": no call runs)
    gcall,           \* the arguments and locals of the checkTransaction call
    gret,            \* the GuardResult checkTransaction last returned
    lastOp,          \* the last operation called, with its arguments
    ret              \* what the last operation returned

limitsVars == <<maxDaily, maxPerTx, dailySpend, lastResetDate, approved, seqUse>>
registryVars == <<allowlist, blocklist, allowSystemPrograms, blockedIds, allowedIds>>
firewallVars == <<payerPublicKey, requireSimulation, pc, tx, programChecks,
                  estimatedSpend, warnings, attempt, trace>>
auditVars == <<authority, events, initialized, lpc, nested, eventIndex, lret,
               history, closed, serialized>>
pdaVars == <<authorityPda, derived, accounts, loggerInitialized>>
wrapperVars == <<dryRun, hasOnBlocked, wpc, wcall, ran, notified, wret, auditLog, calls,
                 usedOps, wserial>>
guardVars == <<gpc, gcall, gret>>
clientVars == <<pdaVars, logged, wrapperVars, guardVars>>
vars == <<now, limitsVars, registryVars, firewallVars, auditVars, clientVars, lastOp, ret>>

\* What the operations of one component leave alone.
outsideLimits == <<registryVars, firewallVars, auditVars, clientVars>>
outsideRegistry == <<now, limitsVars, firewallVars, auditVars, clientVars>>
outsideAudit == <<now, limitsVars, registryVars, firewallVars, clientVars, lastOp, ret>>
outsideFirewall == <<auditVars, clientVars>>

(***************************************************************************)
(* Bounds of the model.                                                    *)
(***************************************************************************)
TicksPerDay == 2      \* clock ticks in one calendar day
MaxNow == 5           \* the clock stops here
MaxCap == 3           \* configured caps are drawn from 0..MaxCap
MaxAmount == 4        \* amounts are drawn from 0..MaxAmount
MaxTransfer == 2      \* the transfers of a transaction move 0..MaxTransfer lamports
MaxEvents == 3        \* the audit trail holds at most this many logged events
MaxDerived == 2       \* the address derivations that are followed
MaxCalls == 2         \* the wrapper calls that are followed
MaxLog == 2           \* the checkTransaction calls that are followed

(***************************************************************************)
(* Program constants.                                                      *)
(***************************************************************************)
STRICT_MAX_DAILY == 1000000000     \* AgentGuard.strict maxDailySpend
STRICT_MAX_PER_TX == 100000000     \* AgentGuard.strict maxPerTxSpend
SOL_DISPLAY_MIN == 1000000         \* sol >= 0.001 with sol = lamports / 1e9

\* The amounts of the strict-preset scenario.
ScenarioAmounts == {50000000, 150000000, 950000000, 950000001}

\* The (maxDailySpend, maxPerTxSpend) configurations a ledger is built with.
LimitConfigs ==
    {[maxDailySpend |-> d, maxPerTxSpend |-> p] : d \in 0..MaxCap, p \in 0..MaxCap}
    \cup {[maxDailySpend |-> STRICT_MAX_DAILY, maxPerTxSpend |-> STRICT_MAX_PER_TX]}

\* The amounts callers pass to a ledger of the current configuration.
Amounts == IF maxDaily = STRICT_MAX_DAILY THEN ScenarioAmounts ELSE 0..MaxAmount

\* Recorded spend is followed up to this total.
SpendCap == maxDaily + MaxAmount

Max(a, b) == IF a >= b THEN a ELSE b

NoResult == [op |-> "none"]
NoReason == [text |-> "undefined"]
NotApproved == [has |-> FALSE, amount |-> 0]

(***************************************************************************)
(* SpendingLimits                                                          *)
(***************************************************************************)

\* new Date().toISOString().split('T')[0]: the calendar day the clock is in.
getTodayDate == now \div TicksPerDay

\* The amount as the reason text shows it: in SOL from 0.001 SOL up, in
\* lamports below.  The digits are not modelled; the unit is.
formatLamports(lamports) ==
    IF lamports >= SOL_DISPLAY_MIN
    THEN [unit |-> "SOL", lamports |-> lamports]
    ELSE [unit |-> "lamports", lamports |-> lamports]

\* The ledger fields after maybeResetDaily().
maybeResetDaily_always ==
    [dailySpend |-> 0, lastResetDate |-> getTodayDate]

maybeResetDaily_keepDate ==
    IF getTodayDate # lastResetDate
    THEN [dailySpend |-> 0, lastResetDate |-> lastResetDate]
    ELSE [dailySpend |-> dailySpend, lastResetDate |-> lastResetDate]

maybeResetDaily ==
    IF getTodayDate # lastResetDate
    THEN [dailySpend |-> 0, lastResetDate |-> getTodayDate]
    ELSE [dailySpend |-> dailySpend, lastResetDate |-> lastResetDate]

\* The result of check(amountLamports) on a ledger holding spend `spent`.
checkResult_dailyFirst(spent, amountLamports) ==
    LET projectedDaily == spent + amountLamports IN
    IF projectedDaily > maxDaily
    THEN [op |-> "check", amount |-> amountLamports, allowed |-> FALSE,
          reason |-> [text |-> "would exceed daily limit",
                      current |-> formatLamports(spent),
                      tx |-> formatLamports(amountLamports),
                      limit |-> formatLamports(maxDaily)],
          currentDailySpend |-> spent,
          remainingDaily |-> Max(0, maxDaily - spent)]
    ELSE IF amountLamports > maxPerTx
    THEN [op |-> "check", amount |-> amountLamports, allowed |-> FALSE,
          reason |-> [text |-> "exceeds per-tx limit",
                      tx |-> formatLamports(amountLamports),
                      limit |-> formatLamports(maxPerTx)],
          currentDailySpend |-> spent,
          remainingDaily |-> Max(0, maxDaily - spent)]
    ELSE [op |-> "check", amount |-> amountLamports, allowed |-> TRUE,
          reason |-> NoReason,
          currentDailySpend |-> spent,
          remainingDaily |-> maxDaily - projectedDaily]

checkResult_dailyOffByOne(spent, amountLamports) ==
    LET projectedDaily == spent + amountLamports IN
    IF amountLamports > maxPerTx
    THEN [op |-> "check", amount |-> amountLamports, allowed |-> FALSE,
          reason |-> [text |-> "exceeds per-tx limit",
                      tx |-> formatLamports(amountLamports),
                      limit |-> formatLamports(maxPerTx)],
          currentDailySpend |-> spent,
          remainingDaily |-> Max(0, maxDaily - spent)]
    ELSE IF projectedDaily > maxDaily + 1
    THEN [op |-> "check", amount |-> amountLamports, allowed |-> FALSE,
          reason |-> [text |-> "would exceed daily limit",
                      current |-> formatLamports(spent),
                      tx |-> formatLamports(amountLamports),
                      limit |-> formatLamports(maxDaily)],
          currentDailySpend |-> spent,
          remainingDaily |-> Max(0, maxDaily - spent)]
    ELSE [op |-> "check", amount |-> amountLamports, allowed |-> TRUE,
          reason |-> NoReason,
          currentDailySpend |-> spent,
          remainingDaily |-> maxDaily - projectedDaily]

checkResult_remainingBefore(spent, amountLamports) ==
    LET projectedDaily == spent + amountLamports IN
    IF amountLamports > maxPerTx
    THEN [op |-> "check", amount |-> amountLamports, allowed |-> FALSE,
          reason |-> [text |-> "exceeds per-tx limit",
                      tx |-> formatLamports(amountLamports),
                      limit |-> formatLamports(maxPerTx)],
          currentDailySpend |-> spent,
          remainingDaily |-> Max(0, maxDaily - spent)]
    ELSE IF projectedDaily > maxDaily
    THEN [op |-> "check", amount |-> amountLamports, allowed |-> FALSE,
          reason |-> [text |-> "would exceed daily limit",
                      current |-> formatLamports(spent),
                      tx |-> formatLamports(amountLamports),
                      limit |-> formatLamports(maxDaily)],
          currentDailySpend |-> spent,
          remainingDaily |-> Max(0, maxDaily - spent)]
    ELSE [op |-> "check", amount |-> amountLamports, allowed |-> TRUE,
          reason |-> NoReason,
          currentDailySpend |-> spent,
          remainingDaily |-> maxDaily - spent]

\* A check that reports the difference without clamping it.
checkResult_noClamp(spent, amountLamports) ==
    LET projectedDaily == spent + amountLamports IN
    IF amountLamports > maxPerTx
    THEN [op |-> "check", amount |-> amountLamports, allowed |-> FALSE,
          reason |-> [text |-> "exceeds per-tx limit",
                      tx |-> formatLamports(amountLamports),
                      limit |-> formatLamports(maxPerTx)],
          currentDailySpend |-> spent,
          remainingDaily |-> maxDaily - spent]
    ELSE IF projectedDaily > maxDaily
    THEN [op |-> "check", amount |-> amountLamports, allowed |-> FALSE,
          reason |-> [text |-> "would exceed daily limit",
                      current |-> formatLamports(spent),
                      tx |-> formatLamports(amountLamports),
                      limit |-> formatLamports(maxDaily)],
          currentDailySpend |-> spent,
          remainingDaily |-> maxDaily - spent]
    ELSE [op |-> "check", amount |-> amountLamports, allowed |-> TRUE,
          reason |-> NoReason,
          currentDailySpend |-> spent,
          remainingDaily |-> maxDaily - projectedDaily]

checkResult(spent, amountLamports) ==
    LET projectedDaily == spent + amountLamports IN
    IF amountLamports > maxPerTx
    THEN [op |-> "check", amount |-> amountLamports, allowed |-> FALSE,
          reason |-> [text |-> "exceeds per-tx limit",
                      tx |-> formatLamports(amountLamports),
                      limit |-> formatLamports(maxPerTx)],
          currentDailySpend |-> spent,
          remainingDaily |-> Max(0, maxDaily - spent)]
    ELSE IF projectedDaily > maxDaily
    THEN [op |-> "check", amount |-> amountLamports, allowed |-> FALSE,
          reason |-> [text |-> "would exceed daily limit",
                      current |-> formatLamports(spent),
                      tx |-> formatLamports(amountLamports),
                      limit |-> formatLamports(maxDaily)],
          currentDailySpend |-> spent,
          remainingDaily |-> Max(0, maxDaily - spent)]
    ELSE [op |-> "check", amount |-> amountLamports, allowed |-> TRUE,
          reason |-> NoReason,
          currentDailySpend |-> spent,
          remainingDaily |-> maxDaily - projectedDaily]

\* SpendingLimits.check(amountLamports): the rollover, then the two caps.
Limits_check(amountLamports) ==
    LET s == maybeResetDaily
        r == checkResult(s.dailySpend, amountLamports)
    IN  /\ dailySpend' = s.dailySpend
        /\ lastResetDate' = s.lastResetDate
        /\ approved' = IF r.allowed /\ seqUse
                       THEN [has |-> TRUE, amount |-> amountLamports]
                       ELSE NotApproved
        /\ lastOp' = [op |-> "check", amount |-> amountLamports]
        /\ ret' = r
        /\ UNCHANGED <<now, maxDaily, maxPerTx, seqUse, outsideLimits>>

\* SpendingLimits.recordSpend(amountLamports): the rollover, then the sum.
Limits_recordSpend(amountLamports) ==
    LET s == maybeResetDaily IN
    /\ amountLamports <= SpendCap - s.dailySpend
    /\ dailySpend' = s.dailySpend + amountLamports
    /\ lastResetDate' = s.lastResetDate
    /\ seqUse' = (seqUse /\ approved.has /\ approved.amount = amountLamports)
    /\ approved' = NotApproved
    /\ lastOp' = [op |-> "recordSpend", amount |-> amountLamports]
    /\ ret' = [op |-> "recordSpend"]
    /\ UNCHANGED <<now, maxDaily, maxPerTx, outsideLimits>>

\* SpendingLimits.resetDailySpend()
Limits_resetDailySpend ==
    /\ dailySpend' = 0
    /\ lastResetDate' = getTodayDate
    /\ lastOp' = [op |-> "resetDailySpend"]
    /\ ret' = [op |-> "resetDailySpend"]
    /\ UNCHANGED <<now, maxDaily, maxPerTx, approved, seqUse, outsideLimits>>

\* SpendingLimits.getStatus()
Limits_getStatus ==
    LET s == maybeResetDaily IN
    /\ dailySpend' = s.dailySpend
    /\ lastResetDate' = s.lastResetDate
    /\ lastOp' = [op |-> "getStatus"]
    /\ ret' = [op |-> "getStatus", dailySpend |-> s.dailySpend,
               dailyLimit |-> maxDaily, perTxLimit |-> maxPerTx]
    /\ UNCHANGED <<now, maxDaily, maxPerTx, approved, seqUse, outsideLimits>>

\* The wall clock advances.
Tick ==
    /\ now < MaxNow
    /\ now' = now + 1
    /\ UNCHANGED <<limitsVars, outsideLimits, lastOp, ret>>

\* new SpendingLimits(config)
LimitsInit ==
    /\ \E c \in LimitConfigs :
          /\ maxDaily = c.maxDailySpend
          /\ maxPerTx = c.maxPerTxSpend
    /\ dailySpend = 0
    /\ lastResetDate = getTodayDate
    /\ approved = NotApproved
    /\ seqUse = TRUE


(***************************************************************************)
(* ProgramAllowlist                                                        *)
(***************************************************************************)

\* String.prototype.toLowerCase, character by character.
LowerChar(c) ==
    CASE c = "T" -> "t"
      [] c = "K" -> "k"
      [] c = "J" -> "j"
      [] c = "P" -> "p"
      [] OTHER -> c

toLowerCase(id) == [i \in DOMAIN id |-> LowerChar(id[i])]

\* The program ids of the model (base58 text is case-sensitive): the system
\* program, which has no letters; a second system-safe program; an id that
\* differs from it only in letter case; two more ids that differ from each
\* other only in letter case.
SystemProgramId == <<"1", "1">>
ProgramIds == {SystemProgramId, <<"T", "k">>, <<"t", "K">>, <<"J", "p">>, <<"j", "P">>}

KNOWN_MALICIOUS_PROGRAMS == {}
SAFE_SYSTEM_PROGRAMS == {SystemProgramId, <<"T", "k">>}

\* this.systemPrograms
systemPrograms == {toLowerCase(p) : p \in SAFE_SYSTEM_PROGRAMS}

NullAllowlist == [null |-> TRUE, ids |-> {}]
SetAllowlist(ids) == [null |-> FALSE, ids |-> ids]

\* The result of check(programId).
Allowlist_checkResult_allowlistFirst(programId) ==
    LET idLower == toLowerCase(programId) IN
    IF ~allowlist.null /\ idLower \in allowlist.ids
    THEN [allowed |-> TRUE, reason |-> NoReason,
          programId |-> programId, status |-> "allowed"]
    ELSE IF idLower \in blocklist
    THEN [allowed |-> FALSE, reason |-> [text |-> "is blocked", id |-> programId],
          programId |-> programId, status |-> "blocked"]
    ELSE IF allowSystemPrograms /\ idLower \in systemPrograms
    THEN [allowed |-> TRUE, reason |-> NoReason,
          programId |-> programId, status |-> "system_safe"]
    ELSE IF ~allowlist.null
    THEN [allowed |-> FALSE, reason |-> [text |-> "is not in allowlist", id |-> programId],
          programId |-> programId, status |-> "not_in_allowlist"]
    ELSE [allowed |-> TRUE, reason |-> NoReason,
          programId |-> programId, status |-> "allowed"]

Allowlist_checkResult_exactBlocklist(programId) ==
    LET idLower == toLowerCase(programId) IN
    IF programId \in blocklist
    THEN [allowed |-> FALSE, reason |-> [text |-> "is blocked", id |-> programId],
          programId |-> programId, status |-> "blocked"]
    ELSE IF allowSystemPrograms /\ idLower \in systemPrograms
    THEN [allowed |-> TRUE, reason |-> NoReason,
          programId |-> programId, status |-> "system_safe"]
    ELSE IF ~allowlist.null
    THEN IF idLower \in allowlist.ids
         THEN [allowed |-> TRUE, reason |-> NoReason,
               programId |-> programId, status |-> "allowed"]
         ELSE [allowed |-> FALSE, reason |-> [text |-> "is not in allowlist", id |-> programId],
               programId |-> programId, status |-> "not_in_allowlist"]
    ELSE [allowed |-> TRUE, reason |-> NoReason,
          programId |-> programId, status |-> "allowed"]

Allowlist_checkResult_defaultDeny(programId) ==
    LET idLower == toLowerCase(programId) IN
    IF idLower \in blocklist
    THEN [allowed |-> FALSE, reason |-> [text |-> "is blocked", id |-> programId],
          programId |-> programId, status |-> "blocked"]
    ELSE IF allowSystemPrograms /\ idLower \in systemPrograms
    THEN [allowed |-> TRUE, reason |-> NoReason,
          programId |-> programId, status |-> "system_safe"]
    ELSE IF ~allowlist.null /\ idLower \in allowlist.ids
    THEN [allowed |-> TRUE, reason |-> NoReason,
          programId |-> programId, status |-> "allowed"]
    ELSE [allowed |-> FALSE, reason |-> [text |-> "is not in allowlist", id |-> programId],
          programId |-> programId, status |-> "not_in_allowlist"]

Allowlist_checkResult(programId) ==
    LET idLower == toLowerCase(programId) IN
    IF idLower \in blocklist
    THEN [allowed |-> FALSE, reason |-> [text |-> "is blocked", id |-> programId],
          programId |-> programId, status |-> "blocked"]
    ELSE IF allowSystemPrograms /\ idLower \in systemPrograms
    THEN [allowed |-> TRUE, reason |-> NoReason,
          programId |-> programId, status |-> "system_safe"]
    ELSE IF ~allowlist.null
    THEN IF idLower \in allowlist.ids
         THEN [allowed |-> TRUE, reason |-> NoReason,
               programId |-> programId, status |-> "allowed"]
         ELSE [allowed |-> FALSE, reason |-> [text |-> "is not in allowlist", id |-> programId],
               programId |-> programId, status |-> "not_in_allowlist"]
    ELSE [allowed |-> TRUE, reason |-> NoReason,
          programId |-> programId, status |-> "allowed"]

\* checkAll(programIds): check, id by id.
checkAll(programIds) ==
    [i \in DOMAIN programIds |-> Allowlist_checkResult(programIds[i])]

\* The allowlist and the return value of addToAllowlist(programId).
addToAllowlist_createsList(programId) ==
    [allowlist |-> SetAllowlist(allowlist.ids \cup {toLowerCase(programId)}),
     value |-> TRUE]

addToAllowlist(programId) ==
    IF allowlist.null
    THEN [allowlist |-> allowlist, value |-> FALSE]
    ELSE [allowlist |-> SetAllowlist(allowlist.ids \cup {toLowerCase(programId)}),
          value |-> TRUE]

\* ProgramAllowlist.check(programId)
Allowlist_check(programId) ==
    /\ lastOp' = [op |-> "allowlist.check", programId |-> programId]
    /\ ret' = [op |-> "allowlist.check", result |-> Allowlist_checkResult(programId)]
    /\ UNCHANGED <<registryVars, outsideRegistry>>

\* ProgramAllowlist.addToBlocklist(programId)
Allowlist_addToBlocklist(programId) ==
    /\ blocklist' = blocklist \cup {toLowerCase(programId)}
    /\ blockedIds' = blockedIds \cup {programId}
    /\ lastOp' = [op |-> "addToBlocklist", programId |-> programId]
    /\ ret' = [op |-> "addToBlocklist"]
    /\ UNCHANGED <<allowlist, allowSystemPrograms, allowedIds, outsideRegistry>>

\* An addToAllowlist that takes the id it allows out of the blocklist.
Allowlist_addToAllowlist_unblocks(programId) ==
    LET r == addToAllowlist(programId) IN
    /\ allowlist' = r.allowlist
    /\ allowedIds' = IF r.value THEN allowedIds \cup {programId} ELSE allowedIds
    /\ blocklist' = IF r.value THEN blocklist \ {toLowerCase(programId)} ELSE blocklist
    /\ lastOp' = [op |-> "addToAllowlist", programId |-> programId]
    /\ ret' = [op |-> "addToAllowlist", value |-> r.value]
    /\ UNCHANGED <<allowSystemPrograms, blockedIds, outsideRegistry>>

\* ProgramAllowlist.addToAllowlist(programId)
Allowlist_addToAllowlist(programId) ==
    LET r == addToAllowlist(programId) IN
    /\ allowlist' = r.allowlist
    /\ allowedIds' = IF r.value THEN allowedIds \cup {programId} ELSE allowedIds
    /\ lastOp' = [op |-> "addToAllowlist", programId |-> programId]
    /\ ret' = [op |-> "addToAllowlist", value |-> r.value]
    /\ UNCHANGED <<blocklist, allowSystemPrograms, blockedIds, outsideRegistry>>

\* ProgramAllowlist.getStatus()
Allowlist_getStatus ==
    /\ lastOp' = [op |-> "allowlist.getStatus"]
    /\ ret' = [op |-> "allowlist.getStatus",
               mode |-> IF ~allowlist.null THEN "allowlist" ELSE "blocklist_only",
               allowlistSize |-> IF allowlist.null THEN [null |-> TRUE, size |-> 0]
                                 ELSE [null |-> FALSE, size |-> Cardinality(allowlist.ids)],
               blocklistSize |-> Cardinality(blocklist)]
    /\ UNCHANGED <<registryVars, outsideRegistry>>

\* new ProgramAllowlist(config), for the given config.allowedPrograms
\* (a record: null, or the ids), blockedPrograms and allowSystemPrograms.
RegistryInit(allowedPrograms, blockedPrograms, allowSystem) ==
    /\ allowlist = IF allowedPrograms.null THEN NullAllowlist
                   ELSE SetAllowlist({toLowerCase(p) : p \in allowedPrograms.ids})
    /\ blocklist = {toLowerCase(p) : p \in KNOWN_MALICIOUS_PROGRAMS \cup blockedPrograms}
    /\ allowSystemPrograms = allowSystem
    /\ blockedIds = blockedPrograms
    /\ allowedIds = allowedPrograms.ids

\* The stand-in registry of a specification that does not use it.
RegistryIdle == RegistryInit(NullAllowlist, {}, TRUE)

\* The stand-in ledger of a specification that does not use it.
LimitsIdle ==
    /\ maxDaily = 0
    /\ maxPerTx = 0
    /\ dailySpend = 0
    /\ lastResetDate = getTodayDate
    /\ approved = NotApproved
    /\ seqUse = TRUE

(***************************************************************************)
(* TransactionSimulator                                                    *)
(***************************************************************************)
DEFAULT_FEE == 5000        \* let fee = 5000
maxRetries == 2            \* config.maxRetries || 2, as TransactionFirewall builds it

Undefined == [has |-> FALSE]
Some(v) == [has |-> TRUE, value |-> v]

\* SystemProgram.transfer: 4 bytes of tag 2 and 8 bytes of amount.
SystemTransfer(n) ==
    [programId |-> SystemProgramId,
     data |-> [length |-> 12, instructionType |-> 2, lamports |-> n]]

\* An instruction of another shape: no payload.
OtherInstruction(id) ==
    [programId |-> id,
     data |-> [length |-> 0, instructionType |-> 0, lamports |-> 0]]

\* The transactions callers submit: legacy or versioned, with or without a
\* recent blockhash, an ordered list of instructions.
Transactions ==
    {[legacy |-> TRUE, recentBlockhash |-> TRUE,
      instructions |-> <<SystemTransfer(n)>>] : n \in 0..MaxTransfer}
    \cup
    {[legacy |-> TRUE, recentBlockhash |-> FALSE,
      instructions |-> <<SystemTransfer(1), OtherInstruction(<<"J", "p">>)>>],
     [legacy |-> FALSE, recentBlockhash |-> TRUE,
      instructions |-> <<OtherInstruction(<<"j", "P">>), SystemTransfer(MaxTransfer),
                         OtherInstruction(<<"j", "P">>)>>]}

NoTransaction == [legacy |-> TRUE, recentBlockhash |-> FALSE, instructions |-> <<>>]

\* [...new Set(ids)]: the first occurrence of each id, in order.
RECURSIVE Dedupe(_, _)
Dedupe(ids, seen) ==
    IF ids = <<>> THEN <<>>
    ELSE IF Head(ids) \in seen THEN Dedupe(Tail(ids), seen)
    ELSE <<Head(ids)>> \o Dedupe(Tail(ids), seen \cup {Head(ids)})

\* extractProgramIds(tx)
extractProgramIds(t) ==
    Dedupe([i \in DOMAIN t.instructions |-> t.instructions[i].programId], {})

\* extractSpendFromLegacyInstruction / extractSpendFromCompiledInstruction
extractSpendFromInstruction(ix) ==
    IF /\ ix.programId = SystemProgramId
       /\ ix.data.length >= 12
       /\ ix.data.instructionType = 2
    THEN ix.data.lamports
    ELSE 0

RECURSIVE SumSpend(_)
SumSpend(instructions) ==
    IF instructions = <<>> THEN 0
    ELSE extractSpendFromInstruction(Head(instructions)) + SumSpend(Tail(instructions))

\* What the fee lookup of estimateSpend can come to: no lookup (the
\* transaction is versioned or has no recent blockhash), a fee, null, or a
\* thrown error.
FeeOutcomes(t) ==
    IF t.legacy /\ t.recentBlockhash
    THEN {[kind |-> "value", value |-> DEFAULT_FEE],
          [kind |-> "value", value |-> 2 * DEFAULT_FEE],
          [kind |-> "null", value |-> 0],
          [kind |-> "throw", value |-> 0]}
    ELSE {[kind |-> "none", value |-> 0]}

\* estimateSpend(tx, payer), given what the fee lookup came to.
estimateSpend(t, feeOutcome) ==
    IF feeOutcome.kind = "throw"
    THEN [estimatedSpend |-> 5000, fee |-> 5000,
          warnings |-> <<"Fee estimation failed">>]
    ELSE LET fee == IF feeOutcome.kind = "value" THEN feeOutcome.value ELSE DEFAULT_FEE
             total == fee + SumSpend(t.instructions)
         IN  [estimatedSpend |-> total, fee |-> fee,
              warnings |-> IF total = fee
                           THEN <<"Could not detect explicit SOL transfers - spend may be higher">>
                           ELSE <<>>]

\* What one simulateTransaction call can come to: a response (with or without
\* err, with log lines) or a thrown transport error.
SimOutcomes ==
    {[kind |-> "response", err |-> FALSE, logs |-> <<>>],
     [kind |-> "response", err |-> FALSE, logs |-> <<"Program log: Insufficient Funds">>],
     [kind |-> "response", err |-> TRUE, logs |-> <<>>],
     [kind |-> "throw", err |-> FALSE, logs |-> <<>>]}

\* log.toLowerCase().includes('insufficient funds'), for the lines of the model
IncludesInsufficientFunds(log) == log = "Program log: Insufficient Funds"

\* analyzeLogsForWarnings(logs)
RECURSIVE analyzeLogsForWarnings(_)
analyzeLogsForWarnings(logs) ==
    IF logs = <<>> THEN <<>>
    ELSE (IF IncludesInsufficientFunds(Head(logs))
          THEN <<"Transaction may fail due to insufficient funds">>
          ELSE <<>>) \o analyzeLogsForWarnings(Tail(logs))

\* A simulateWithRetry whose loop runs once more than maxRetries.
simulateWithRetry_oneMore(o, i) ==
    IF o.kind # "throw" THEN "return"
    ELSE IF i + 1 < maxRetries + 1 THEN "retry"
    ELSE "rethrow"

\* simulateWithRetry(fn), when attempt i (from 0) of fn has come to o: it
\* returns the response, or goes round the loop again, or throws lastError.
simulateWithRetry(o, i) ==
    IF o.kind # "throw" THEN "return"
    ELSE IF i + 1 < maxRetries THEN "retry"
    ELSE "rethrow"

\* A simulate that reports a failure when the logs give rise to a warning.
simulateResponse_warningsFail(response) ==
    IF response.err \/ analyzeLogsForWarnings(response.logs) # <<>>
    THEN [has |-> TRUE, success |-> FALSE, error |-> "InstructionError",
          logs |-> response.logs, warnings |-> <<>>]
    ELSE [has |-> TRUE, success |-> TRUE, error |-> "undefined",
          logs |-> response.logs, warnings |-> <<>>]

\* A simulate that reports success whatever the response's err is.
simulateResponse_ignoresErr(response) ==
    [has |-> TRUE, success |-> TRUE, error |-> "undefined",
     logs |-> response.logs, warnings |-> analyzeLogsForWarnings(response.logs)]

\* The SimulationResult simulate builds from a response.
simulateResponse(response) ==
    IF response.err
    THEN [has |-> TRUE, success |-> FALSE, error |-> "InstructionError",
          logs |-> response.logs, warnings |-> <<>>]
    ELSE [has |-> TRUE, success |-> TRUE, error |-> "undefined",
          logs |-> response.logs, warnings |-> analyzeLogsForWarnings(response.logs)]

\* The SimulationResult simulate builds in its catch block.
simulateCaught ==
    [has |-> TRUE, success |-> FALSE, error |-> "transport error",
     logs |-> <<>>, warnings |-> <<>>]

(***************************************************************************)
(* TransactionFirewall                                                     *)
(***************************************************************************)

\* programChecks.find(p => !p.allowed): the index of the first, or 0.
RECURSIVE FindBlocked(_, _)
FindBlocked(checks, i) ==
    IF i > Len(checks) THEN 0
    ELSE IF ~checks[i].allowed THEN i
    ELSE FindBlocked(checks, i + 1)

FirewallResult(allowed, reason, w, sim, checks, est) ==
    [allowed |-> allowed, reason |-> reason, warnings |-> w,
     simulationResult |-> sim, programsChecked |-> checks, estimatedSpend |-> est]

\* The firewall's variables after a step of check.
Step(n) ==
    /\ pc' = n.pc
    /\ tx' = n.tx
    /\ programChecks' = n.programChecks
    /\ estimatedSpend' = n.estimatedSpend
    /\ warnings' = n.warnings
    /\ attempt' = n.attempt
    /\ trace' = n.trace
    /\ lastOp' = [op |-> "firewall.check"]
    /\ ret' = n.ret
    /\ UNCHANGED <<payerPublicKey, requireSimulation>>

\* A step of a check that was called on the firewall itself.
Continue(n) == Step(n) /\ UNCHANGED outsideFirewall

\* check returns `result`, having made the calls `tr`; its locals are gone.
Return(t, checks, est, w, tr, result) ==
    [pc |-> "idle", tx |-> NoTransaction, programChecks |-> <<>>,
     estimatedSpend |-> Undefined, warnings |-> <<>>, attempt |-> 0, trace |-> <<>>,
     ret |-> [op |-> "firewall.check", tx |-> t, result |-> result, calls |-> tr]]

\* check is suspended at `at`.
Await(at, t, checks, est, w, i, tr) ==
    [pc |-> at, tx |-> t, programChecks |-> checks, estimatedSpend |-> est,
     warnings |-> w, attempt |-> i, trace |-> tr,
     ret |-> [op |-> "firewall.check.pending"]]

\* Step 3: simulate, if required; else all checks have passed.
EnterSimulation(t, checks, est, w, tr) ==
    IF requireSimulation
    THEN IF t.legacy /\ ~t.recentBlockhash
         THEN Await("getLatestBlockhash", t, checks, est, w, 0,
                    tr \o <<"simulate", "rpc.getLatestBlockhash">>)
         ELSE Await("simulateTransaction", t, checks, est, w, 0,
                    tr \o <<"simulate", "rpc.simulateTransaction">>)
    ELSE Return(t, checks, est, w, tr,
                FirewallResult(TRUE, NoReason,
                               IF Len(w) > 0 THEN Some(w) ELSE Undefined,
                               Undefined, checks, est))

\* The end of step 3 of a check that lets a failed simulation pass.
LeaveSimulation_failOpen(t, checks, est, w, tr, sim) ==
    Return(t, checks, est, w \o sim.warnings, tr,
           FirewallResult(TRUE, NoReason,
                          IF Len(w \o sim.warnings) > 0
                          THEN Some(w \o sim.warnings) ELSE Undefined,
                          sim, checks, est))

\* The end of step 3, with the SimulationResult `sim`.
LeaveSimulation(t, checks, est, w, tr, sim) ==
    IF ~sim.success
    THEN Return(t, checks, est, w, tr,
                FirewallResult(FALSE, [text |-> "Simulation failed", error |-> sim.error],
                               Some(w \o sim.warnings), sim, checks, est))
    ELSE Return(t, checks, est, w \o sim.warnings, tr,
                FirewallResult(TRUE, NoReason,
                               IF Len(w \o sim.warnings) > 0
                               THEN Some(w \o sim.warnings) ELSE Undefined,
                               sim, checks, est))

\* Step 1 of check(tx), up to its first suspension: the program checks, and
\* the call of estimateSpend or simulate that follows them.
checkPrograms_noShortCircuit(t) ==
    LET programIds == extractProgramIds(t)
        checks == checkAll(programIds)
        blockedProgram == FindBlocked(checks, 1)
        tr == <<"allowlist.checkAll">>
    IN  IF blockedProgram # 0
        THEN Return(t, checks, Undefined, <<>>,
                    tr \o <<"simulator.estimateSpend">>
                       \o (IF t.legacy /\ t.recentBlockhash
                           THEN <<"rpc.getFeeForMessage">> ELSE <<>>),
                    FirewallResult(FALSE, checks[blockedProgram].reason, Some(<<>>),
                                   Undefined, checks, Undefined))
        ELSE IF payerPublicKey
        THEN Await("estimateSpend", t, checks, Undefined, <<>>, 0,
                   tr \o <<"simulator.estimateSpend">>
                      \o (IF t.legacy /\ t.recentBlockhash
                          THEN <<"rpc.getFeeForMessage">> ELSE <<>>))
        ELSE EnterSimulation(t, checks, Undefined,
                 <<"No payer public key provided - spending limits not enforced">>, tr)

\* Step 1 of a check that estimates and checks the spend without a payer key.
checkPrograms_alwaysSpend(t) ==
    LET programIds == extractProgramIds(t)
        checks == checkAll(programIds)
        blockedProgram == FindBlocked(checks, 1)
        tr == <<"allowlist.checkAll">>
    IN  IF blockedProgram # 0
        THEN Return(t, checks, Undefined, <<>>, tr,
                    FirewallResult(FALSE, checks[blockedProgram].reason, Some(<<>>),
                                   Undefined, checks, Undefined))
        ELSE Await("estimateSpend", t, checks, Undefined, <<>>, 0,
                   tr \o <<"simulator.estimateSpend">>
                      \o (IF t.legacy /\ t.recentBlockhash
                          THEN <<"rpc.getFeeForMessage">> ELSE <<>>))

checkPrograms(t) ==
    LET programIds == extractProgramIds(t)
        checks == checkAll(programIds)
        blockedProgram == FindBlocked(checks, 1)
        tr == <<"allowlist.checkAll">>
    IN  IF blockedProgram # 0
        THEN Return(t, checks, Undefined, <<>>, tr,
                    FirewallResult(FALSE, checks[blockedProgram].reason, Some(<<>>),
                                   Undefined, checks, Undefined))
        ELSE IF payerPublicKey
        THEN Await("estimateSpend", t, checks, Undefined, <<>>, 0,
                   tr \o <<"simulator.estimateSpend">>
                      \o (IF t.legacy /\ t.recentBlockhash
                          THEN <<"rpc.getFeeForMessage">> ELSE <<>>))
        ELSE EnterSimulation(t, checks, Undefined,
                 <<"No payer public key provided - spending limits not enforced">>, tr)

\* What the log of calls gets when the fee lookup of estimateSpend returns.
FeeReturn(feeOutcome) ==
    IF feeOutcome.kind = "none" THEN <<>>
    ELSE IF feeOutcome.kind = "throw" THEN <<"rpc.getFeeForMessage threw">>
    ELSE IF feeOutcome.kind = "null" THEN <<"rpc.getFeeForMessage returned null">>
    ELSE <<"rpc.getFeeForMessage returned a fee">>

\* What the log of calls gets when a simulateTransaction call returns.
SimReturn(o) ==
    IF o.kind = "throw" THEN <<"rpc.simulateTransaction threw">>
    ELSE IF o.err THEN <<"rpc.simulateTransaction returned err">>
    ELSE <<"rpc.simulateTransaction returned">>

\* Step 2 of check(tx), from the return of estimateSpend: the spend check,
\* and the call of simulate that follows it.
checkSpend(feeOutcome) ==
    LET spendEstimate == estimateSpend(tx, feeOutcome)
        est == Some(spendEstimate.estimatedSpend)
        w == warnings \o spendEstimate.warnings
        limitCheck == checkResult(maybeResetDaily.dailySpend, spendEstimate.estimatedSpend)
        tr == trace \o FeeReturn(feeOutcome) \o <<"limits.check">>
    IN  IF ~limitCheck.allowed
        THEN Return(tx, programChecks, est, w, tr,
                    FirewallResult(FALSE, limitCheck.reason, Some(w),
                                   Undefined, programChecks, est))
        ELSE EnterSimulation(tx, programChecks, est, w, tr)

\* TransactionFirewall.check(tx) is called.
Firewall_check(t) ==
    /\ pc = "idle"
    /\ Continue(checkPrograms(t))
    /\ UNCHANGED <<now, limitsVars, registryVars>>

\* A check that books the estimate into the ledger when the limits allow it.
Firewall_estimateSpendReturns_recordsSpend ==
    /\ pc = "estimateSpend"
    /\ \E feeOutcome \in FeeOutcomes(tx) :
          LET est == estimateSpend(tx, feeOutcome).estimatedSpend IN
          /\ Continue(checkSpend(feeOutcome))
          /\ dailySpend' = IF checkResult(maybeResetDaily.dailySpend, est).allowed
                           THEN maybeResetDaily.dailySpend + est
                           ELSE maybeResetDaily.dailySpend
    /\ lastResetDate' = maybeResetDaily.lastResetDate
    /\ UNCHANGED <<now, maxDaily, maxPerTx, approved, seqUse, registryVars>>

\* estimateSpend returns to check.
Firewall_estimateSpendReturns ==
    /\ pc = "estimateSpend"
    /\ \E feeOutcome \in FeeOutcomes(tx) : Continue(checkSpend(feeOutcome))
    /\ dailySpend' = maybeResetDaily.dailySpend
    /\ lastResetDate' = maybeResetDaily.lastResetDate
    /\ UNCHANGED <<now, maxDaily, maxPerTx, approved, seqUse, registryVars>>

\* getLatestBlockhash returns to simulate, or throws.
Firewall_getLatestBlockhashReturns ==
    /\ pc = "getLatestBlockhash"
    /\ \E ok \in BOOLEAN :
          Continue(IF ok
                   THEN Await("simulateTransaction",
                              [tx EXCEPT !.recentBlockhash = TRUE],
                              programChecks, estimatedSpend, warnings, 0,
                              trace \o <<"rpc.getLatestBlockhash returned",
                                          "rpc.simulateTransaction">>)
                   ELSE LeaveSimulation(tx, programChecks, estimatedSpend, warnings,
                                        trace \o <<"rpc.getLatestBlockhash threw">>,
                                        simulateCaught))
    /\ UNCHANGED <<now, limitsVars, registryVars>>

\* One simulateTransaction call of simulateWithRetry returns, or throws.
Firewall_simulateTransactionReturns ==
    /\ pc = "simulateTransaction"
    /\ \E o \in SimOutcomes :
          Continue(IF simulateWithRetry(o, attempt) = "retry"
                   THEN Await("simulateTransaction", tx, programChecks,
                                   estimatedSpend, warnings, attempt + 1,
                                   trace \o SimReturn(o) \o <<"rpc.simulateTransaction">>)
                   ELSE IF simulateWithRetry(o, attempt) = "rethrow"
                   THEN LeaveSimulation(tx, programChecks, estimatedSpend,
                                        warnings, trace \o SimReturn(o), simulateCaught)
                   ELSE LeaveSimulation(tx, programChecks, estimatedSpend, warnings,
                                        trace \o SimReturn(o), simulateResponse(o)))
    /\ UNCHANGED <<now, limitsVars, registryVars>>

\* TransactionFirewall.getStatus()
Firewall_getStatus ==
    LET s == maybeResetDaily IN
    /\ dailySpend' = s.dailySpend
    /\ lastResetDate' = s.lastResetDate
    /\ lastOp' = [op |-> "firewall.getStatus"]
    /\ ret' = [op |-> "firewall.getStatus",
               spending |-> [dailySpend |-> s.dailySpend, dailyLimit |-> maxDaily,
                             perTxLimit |-> maxPerTx,
                             remainingDaily |-> maxDaily - s.dailySpend],
               programs |-> [mode |-> IF ~allowlist.null THEN "allowlist" ELSE "blocklist_only",
                             blocklistSize |-> Cardinality(blocklist)],
               requireSimulation |-> requireSimulation]
    /\ UNCHANGED <<now, maxDaily, maxPerTx, approved, seqUse, registryVars, firewallVars,
                   outsideFirewall>>

\* new TransactionFirewall(config): no check is running.
FirewallInit(payer, simulation) ==
    /\ payerPublicKey = payer
    /\ requireSimulation = simulation
    /\ pc = "idle"
    /\ tx = NoTransaction
    /\ programChecks = <<>>
    /\ estimatedSpend = Undefined
    /\ warnings = <<>>
    /\ attempt = 0
    /\ trace = <<>>

\* The stand-in firewall of a specification that does not use it.
FirewallIdle == FirewallInit(FALSE, FALSE)

\* The caps a firewall is built with: below the fee, with room for a few
\* lamports of transfers only, or with room for the fee of one or of two
\* transactions and a few lamports of transfers.
FirewallLimitConfigs ==
    {[maxDailySpend |-> MaxTransfer, maxPerTxSpend |-> 1],
     [maxDailySpend |-> DEFAULT_FEE + MaxTransfer, maxPerTxSpend |-> DEFAULT_FEE + 1],
     [maxDailySpend |-> 2 * DEFAULT_FEE + MaxTransfer,
      maxPerTxSpend |-> DEFAULT_FEE + MaxTransfer]}

\* The amounts callers record: what a checked transaction was estimated at.
SpendAmounts == {DEFAULT_FEE, DEFAULT_FEE + MaxTransfer}

\* The ids callers block and allow at runtime.
RuntimeIds == {<<"J", "p">>}

(***************************************************************************)
(* OnchainAuditLogger, and the ledger program it writes to                 *)
(***************************************************************************)

\* The calls of one logger (one wallet, one principal) that can be in flight
\* together.
Slots == {1, 2}

\* The indices closeEvent is called with.
EventIndexes == 0..(MaxEvents - 1)

NoAuthority == [exists |-> FALSE, eventCount |-> 0]

\* getEventPda(eventIndex): the address is the principal's seed with the
\* index in 8 little-endian bytes, one address per index.
getEventPda(index) == [seed |-> "security-event", index |-> index]

\* The event account at an address, if there is one.
EventsAt(address) == {e \in events : e.address = address}

\* A call of the logger ends: it resolves with a value or rejects.
Resolved(c, op, index, text) ==
    [slot |-> c, op |-> op, kind |-> "resolved", eventIndex |-> index, text |-> text]
Rejected(c, op, text) ==
    [slot |-> c, op |-> op, kind |-> "rejected", eventIndex |-> 0, text |-> text]
NoCall == [slot |-> 0, op |-> "none", kind |-> "none", eventIndex |-> 0, text |-> "none"]

\* The wallet's calls in flight other than slot c's.
OthersIdle(c) == \A d \in Slots \ {c} : lpc[d] = "idle"

\* The logSecurityEvent calls in flight.
LogsInFlight ==
    Cardinality({c \in Slots : lpc[c] \in {"getAuthority", "logEvent.send"}
                                 \/ (lpc[c] # "idle" /\ nested[c])})

\* The ledger program's initialize: creates the Authority if it is absent.
ProgramInitialize ==
    IF authority.exists
    THEN [ok |-> FALSE, authority |-> authority]
    ELSE [ok |-> TRUE, authority |-> [exists |-> TRUE, eventCount |-> 0]]

\* A ledger program that writes over an occupied event address.
ProgramLogEvent_overwrites(address, checksSeeds) ==
    IF ~authority.exists
    THEN [ok |-> FALSE, authority |-> authority, events |-> events]
    ELSE [ok |-> TRUE,
          authority |-> [authority EXCEPT !.eventCount = @ + 1],
          events |-> (events \ EventsAt(address))
                        \cup {[address |-> address, eventIndex |-> address.index]}]

\* A ledger program that does not advance eventCount.
ProgramLogEvent_keepsCount(address, checksSeeds) ==
    IF \/ ~authority.exists
       \/ EventsAt(address) # {}
       \/ (address.index # authority.eventCount /\ checksSeeds)
    THEN [ok |-> FALSE, authority |-> authority, events |-> events]
    ELSE [ok |-> TRUE,
          authority |-> authority,
          events |-> events \cup {[address |-> address, eventIndex |-> address.index]}]

\* The ledger program's log_event, for the event address the client derived:
\* it fails when the address is occupied, else creates the event with the
\* index of the address and advances eventCount by one.  Whether it accepts a
\* free address of another index than the current eventCount (checksSeeds) is
\* left open.
ProgramLogEvent(address, checksSeeds) ==
    IF \/ ~authority.exists
       \/ EventsAt(address) # {}
       \/ (address.index # authority.eventCount /\ checksSeeds)
    THEN [ok |-> FALSE, authority |-> authority, events |-> events]
    ELSE [ok |-> TRUE,
          authority |-> [authority EXCEPT !.eventCount = @ + 1],
          events |-> events \cup {[address |-> address, eventIndex |-> address.index]}]

\* A ledger program whose close_event takes eventCount back by one.
ProgramCloseEvent_renumbers(address) ==
    IF EventsAt(address) = {}
    THEN [ok |-> FALSE, authority |-> authority, events |-> events]
    ELSE [ok |-> TRUE,
          authority |-> [authority EXCEPT !.eventCount = @ - 1],
          events |-> events \ EventsAt(address)]

\* The ledger program's close_event: deletes the event account; eventCount
\* stays.
ProgramCloseEvent(address) ==
    IF EventsAt(address) = {}
    THEN [ok |-> FALSE, authority |-> authority, events |-> events]
    ELSE [ok |-> TRUE, authority |-> authority, events |-> events \ EventsAt(address)]

\* A logger that takes the index after the Authority's eventCount.
nextEventIndex_skips(a) == a.eventCount + 1

\* A logger that logs every event at index 0.
nextEventIndex_first(a) == 0

\* const eventIndex = authority.eventCount
nextEventIndex(a) == a.eventCount

\* The logger's variables after a step of slot c's call.
LoggerStep(c, at, result) ==
    /\ lpc' = [lpc EXCEPT ![c] = at]
    /\ lret' = IF at = "idle" THEN result ELSE lret
    /\ UNCHANGED <<serialized, outsideAudit>>

\* initialize() is called.
Audit_initialize(c) ==
    /\ lpc[c] = "idle"
    /\ lpc' = [lpc EXCEPT ![c] = "initialize.getAccountInfo"]
    /\ nested' = [nested EXCEPT ![c] = FALSE]
    /\ serialized' = (serialized /\ OthersIdle(c))
    /\ UNCHANGED <<authority, events, initialized, eventIndex, lret, history, closed,
                   outsideAudit>>

\* logSecurityEvent(params) is called: initialize first, if not initialized.
Audit_logSecurityEvent(c) ==
    /\ lpc[c] = "idle"
    /\ authority.eventCount + LogsInFlight < MaxEvents
    /\ lpc' = [lpc EXCEPT ![c] = IF ~initialized THEN "initialize.getAccountInfo"
                                 ELSE "getAuthority"]
    /\ nested' = [nested EXCEPT ![c] = ~initialized]
    /\ serialized' = (serialized /\ OthersIdle(c))
    /\ UNCHANGED <<authority, events, initialized, eventIndex, lret, history, closed,
                   outsideAudit>>

\* An initialize that sends its transaction whatever the probe found.
Audit_initializeProbed_sendsAnyway(c) ==
    /\ lpc[c] = "initialize.getAccountInfo"
    /\ initialized' = initialized
    /\ LoggerStep(c, "initialize.send", lret)
    /\ UNCHANGED <<authority, events, nested, eventIndex, history, closed>>

\* initialize: getAccountInfo(authorityPda) returns.
Audit_initializeProbed(c) ==
    /\ lpc[c] = "initialize.getAccountInfo"
    /\ IF authority.exists
       THEN /\ initialized' = TRUE
            /\ LoggerStep(c, IF nested[c] THEN "getAuthority" ELSE "idle",
                          Resolved(c, "initialize", 0, "already_initialized"))
       ELSE /\ initialized' = initialized
            /\ LoggerStep(c, "initialize.send", lret)
    /\ UNCHANGED <<authority, events, nested, eventIndex, history, closed>>

\* initialize: sendAndConfirmTransaction returns or throws.
Audit_initializeSent(c) ==
    /\ lpc[c] = "initialize.send"
    /\ \E delivered \in BOOLEAN :
          IF delivered /\ ProgramInitialize.ok
          THEN /\ authority' = ProgramInitialize.authority
               /\ initialized' = TRUE
               /\ LoggerStep(c, IF nested[c] THEN "getAuthority" ELSE "idle",
                             Resolved(c, "initialize", 0, "signature"))
          ELSE /\ UNCHANGED <<authority, initialized>>
               /\ LoggerStep(c, "idle",
                             Rejected(c, IF nested[c] THEN "logSecurityEvent" ELSE "initialize",
                                      "send failed"))
    /\ UNCHANGED <<events, nested, eventIndex, history, closed>>

\* logSecurityEvent: getAuthority() returns; the instruction is built for
\* the event address of the eventCount read, and sent.
Audit_getAuthorityReturns(c) ==
    /\ lpc[c] = "getAuthority"
    /\ IF ~authority.exists
       THEN /\ eventIndex' = eventIndex
            /\ LoggerStep(c, "idle", Rejected(c, "logSecurityEvent", "Audit authority not found"))
       ELSE /\ eventIndex' = [eventIndex EXCEPT ![c] = nextEventIndex(authority)]
            /\ LoggerStep(c, "logEvent.send", lret)
    /\ UNCHANGED <<authority, events, initialized, nested, history, closed>>

\* A logSecurityEvent that catches a failed write and starts over from the
\* read of eventCount.
Audit_logEventSent_retries(c) ==
    /\ lpc[c] = "logEvent.send"
    /\ \E delivered \in BOOLEAN, checksSeeds \in BOOLEAN :
          LET p == ProgramLogEvent(getEventPda(eventIndex[c]), checksSeeds) IN
          IF delivered /\ p.ok
          THEN /\ authority' = p.authority
               /\ events' = p.events
               /\ history' = Append(history, eventIndex[c])
               /\ LoggerStep(c, "idle", Resolved(c, "logSecurityEvent", eventIndex[c], "signature"))
          ELSE /\ UNCHANGED <<authority, events, history>>
               /\ LoggerStep(c, "getAuthority", lret)
    /\ UNCHANGED <<initialized, nested, eventIndex, closed>>

\* logSecurityEvent: sendAndConfirmTransaction returns or throws.
Audit_logEventSent(c) ==
    /\ lpc[c] = "logEvent.send"
    /\ \E delivered \in BOOLEAN, checksSeeds \in BOOLEAN :
          LET p == ProgramLogEvent(getEventPda(eventIndex[c]), checksSeeds) IN
          IF delivered /\ p.ok
          THEN /\ authority' = p.authority
               /\ events' = p.events
               /\ history' = Append(history, eventIndex[c])
               /\ LoggerStep(c, "idle", Resolved(c, "logSecurityEvent", eventIndex[c], "signature"))
          ELSE /\ UNCHANGED <<authority, events, history>>
               /\ LoggerStep(c, "idle",
                             Rejected(c, "logSecurityEvent",
                                      IF delivered THEN "program error" ELSE "send failed"))
    /\ UNCHANGED <<initialized, nested, eventIndex, closed>>

\* closeEvent(eventIndex) is called: the instruction is built and sent.
Audit_closeEvent(c, index) ==
    /\ lpc[c] = "idle"
    /\ lpc' = [lpc EXCEPT ![c] = "closeEvent.send"]
    /\ nested' = [nested EXCEPT ![c] = FALSE]
    /\ eventIndex' = [eventIndex EXCEPT ![c] = index]
    /\ serialized' = (serialized /\ OthersIdle(c))
    /\ UNCHANGED <<authority, events, initialized, lret, history, closed, outsideAudit>>

\* closeEvent: sendAndConfirmTransaction returns or throws.
Audit_closeEventSent(c) ==
    /\ lpc[c] = "closeEvent.send"
    /\ \E delivered \in BOOLEAN :
          LET p == ProgramCloseEvent(getEventPda(eventIndex[c])) IN
          IF delivered /\ p.ok
          THEN /\ authority' = p.authority
               /\ events' = p.events
               /\ closed' = closed \cup {eventIndex[c]}
               /\ LoggerStep(c, "idle", Resolved(c, "closeEvent", eventIndex[c], "signature"))
          ELSE /\ UNCHANGED <<authority, events, closed>>
               /\ LoggerStep(c, "idle", Rejected(c, "closeEvent", "send failed"))
    /\ UNCHANGED <<initialized, nested, eventIndex, history>>

\* new OnchainAuditLogger(connection, wallet), for a principal with no
\* Authority on the ledger yet.
AuditInit ==
    /\ authority = NoAuthority
    /\ events = {}
    /\ initialized = FALSE
    /\ lpc = [c \in Slots |-> "idle"]
    /\ nested = [c \in Slots |-> FALSE]
    /\ eventIndex = [c \in Slots |-> 0]
    /\ lret = NoCall
    /\ history = <<>>
    /\ closed = {}
    /\ serialized = TRUE

\* The stand-in logger of a specification that does not use it.
AuditIdle == AuditInit

(***************************************************************************)
(* OnchainAuditLogger: the derivation of account addresses                 *)
(***************************************************************************)

\* Buffer.from('audit-authority') and Buffer.from('security-event').
AUTHORITY_SEED == <<97, 117, 100, 105, 116, 45, 97, 117, 116, 104, 111, 114, 105, 116, 121>>
EVENT_SEED == <<115, 101, 99, 117, 114, 105, 116, 121, 45, 101, 118, 101, 110, 116>>

\* The audit program's id, as written.
PROGRAM_ID == "9iCre3TbvPbgmV2RmviiUtCuNiNeQa9cphSABPpkGSdR"

\* publicKey.toBuffer(): the 32 bytes of three principals, two of them
\* differing in the last byte only and two in the first byte only.
KeyA == [i \in 1..32 |-> 1]
KeyB == [i \in 1..32 |-> IF i = 32 THEN 2 ELSE 1]
KeyC == [i \in 1..32 |-> IF i = 1 THEN 2 ELSE 1]
PublicKeys == {KeyA, KeyB, KeyC}

\* The loggers and the wallet each was constructed with: two loggers of one
\* principal and one of another.
Loggers == {1, 2, 3}
wallet == <<KeyA, KeyA, KeyB>>

\* The event indices addresses are derived for.
DerivedIndexes == {0, 1, 255, 256}

NullPda == [null |-> TRUE, address |-> <<>>, bump |-> 0]

\* n in k little-endian bytes.
RECURSIVE LittleEndian(_, _)
LittleEndian(n, k) ==
    IF k = 0 THEN <<>> ELSE <<n % 256>> \o LittleEndian(n \div 256, k - 1)

\* An index buffer that holds the low byte of the index only.
indexBuf_oneByte(index) == <<index % 256>> \o LittleEndian(0, 7)

\* const indexBuf = Buffer.alloc(8); indexBuf.writeBigUInt64LE(BigInt(eventIndex))
indexBuf(index) == LittleEndian(index, 8)

\* The seeds, one after the other, as the address digest takes them.
RECURSIVE Concat(_)
Concat(seeds) == IF seeds = <<>> THEN <<>> ELSE Head(seeds) \o Concat(Tail(seeds))

\* PublicKey.findProgramAddressSync(seeds, PROGRAM_ID): the digest of the
\* seeds, the bump seed and the program id, for the first bump seed from 255
\* down whose digest is off the curve.  The digest is kept as what it is the
\* digest of; which digests are on the curve is not followed, the first
\* candidate is taken.
findProgramAddressSync(seeds) ==
    [address |-> [sha256 |-> Concat(seeds) \o <<255>>, programId |-> PROGRAM_ID],
     bump |-> 255]

\* The derivation of the Authority address of a principal.
deriveAuthorityPda(publicKey) == findProgramAddressSync(<<AUTHORITY_SEED, publicKey>>)

\* The derivation of the address of a principal's event.
deriveEventPda(publicKey, index) ==
    findProgramAddressSync(<<EVENT_SEED, publicKey, indexBuf(index)>>)

Derivation(fn, via, publicKey, index, address) ==
    [fn |-> fn, via |-> via, principal |-> publicKey, eventIndex |-> index,
     address |-> address]

\* A derivation is made and its result noted.
Derive(d) ==
    /\ Cardinality(derived \cup {d}) <= MaxDerived
    /\ derived' = derived \cup {d}
    /\ lastOp' = [op |-> d.fn]
    /\ ret' = [op |-> d.fn, address |-> d.address]
    /\ UNCHANGED <<now, limitsVars, registryVars, firewallVars, auditVars, logged,
                   wrapperVars, guardVars, accounts, loggerInitialized>>

\* logger.getAuthorityPda(): the cached address, or the derived one, which
\* is then cached.
Pda_getAuthorityPda(l) ==
    LET pda == IF ~authorityPda[l].null
               THEN authorityPda[l]
               ELSE [null |-> FALSE,
                     address |-> deriveAuthorityPda(wallet[l]).address,
                     bump |-> deriveAuthorityPda(wallet[l]).bump]
    IN  /\ authorityPda' = [authorityPda EXCEPT ![l] = pda]
        /\ Derive(Derivation("getAuthorityPda", l, wallet[l], 0, pda.address))

\* logger.getEventPda(eventIndex)
Pda_getEventPda(l, index) ==
    /\ authorityPda' = authorityPda
    /\ Derive(Derivation("getEventPda", l, wallet[l], index,
                         deriveEventPda(wallet[l], index).address))

\* OnchainAuditLogger.getEventsForAuthority(connection, authorityWallet):
\* its derivation of the Authority address.
Pda_staticAuthorityPda(authorityWallet) ==
    /\ authorityPda' = authorityPda
    /\ Derive(Derivation("getAuthorityPda", 0, authorityWallet, 0,
                         deriveAuthorityPda(authorityWallet).address))

\* getEventsForAuthority: its derivation of the address of event i.
Pda_staticEventPda(authorityWallet, i) ==
    /\ authorityPda' = authorityPda
    /\ Derive(Derivation("getEventPda", 0, authorityWallet, i,
                         deriveEventPda(authorityWallet, i).address))

\* connection.getAccountInfo(pda): null, or the data of the account.
NoAccountInfo == [null |-> TRUE, data |-> <<>>]
AccountInfo(data) == [null |-> FALSE, data |-> data]

\* The principals with a trail on the ledger, and the addresses of the
\* ledger the clients derive: an Authority address per principal and an
\* event address per principal and index.
TrailPrincipals == {KeyA, KeyB}
TrailIndexes == 0..(MaxEvents - 1)
TrailAddresses ==
    {deriveAuthorityPda(k).address : k \in TrailPrincipals}
    \cup {deriveEventPda(k, i).address : k \in TrailPrincipals, i \in TrailIndexes}

\* A ledger on which the program has stored nothing.
EmptyLedger == [a \in TrailAddresses |-> NoAccountInfo]

\* new OnchainAuditLogger(connection, wallet), for each logger.
PdaInit ==
    /\ authorityPda = [l \in Loggers |-> NullPda]
    /\ derived = {}
    /\ accounts = EmptyLedger
    /\ loggerInitialized = [l \in Loggers |-> FALSE]

\* The stand-in of a specification that derives no address.
PdaIdle == PdaInit

(***************************************************************************)
(* OnchainAuditLogger: the digest of the details, and the event record     *)
(***************************************************************************)

\* The UTF-16 code units details strings are made of: 'a', U+00E9, a high
\* surrogate and a low surrogate.
CodeUnits == {97, 233, 55357, 56832}

\* The details strings: up to two code units.
DetailsStrings == {<<>>} \cup {<<u>> : u \in CodeUnits}
                         \cup {<<u, v>> : u \in CodeUnits, v \in CodeUnits}

IsHighSurrogate(u) == u >= 55296 /\ u <= 56319
IsLowSurrogate(u) == u >= 56320 /\ u <= 57343

\* The UTF-8 bytes of a code point.
Utf8CodePoint(cp) ==
    IF cp < 128 THEN <<cp>>
    ELSE IF cp < 2048 THEN <<192 + (cp \div 64), 128 + (cp % 64)>>
    ELSE IF cp < 65536
    THEN <<224 + (cp \div 4096), 128 + ((cp \div 64) % 64), 128 + (cp % 64)>>
    ELSE <<240 + (cp \div 262144), 128 + ((cp \div 4096) % 64),
           128 + ((cp \div 64) % 64), 128 + (cp % 64)>>

\* The bytes a string is hashed as (and Buffer.byteLength counts): UTF-8,
\* a surrogate pair giving one code point and a surrogate without its pair
\* giving U+FFFD.
RECURSIVE Utf8(_)
Utf8(str) ==
    IF str = <<>> THEN <<>>
    ELSE IF Len(str) >= 2 /\ IsHighSurrogate(str[1]) /\ IsLowSurrogate(str[2])
    THEN Utf8CodePoint(65536 + (str[1] - 55296) * 1024 + (str[2] - 56320))
            \o Utf8(Tail(Tail(str)))
    ELSE IF IsHighSurrogate(str[1]) \/ IsLowSurrogate(str[1])
    THEN Utf8CodePoint(65533) \o Utf8(Tail(str))
    ELSE Utf8CodePoint(str[1]) \o Utf8(Tail(str))

\* The cells of a buffer: a byte of known value, or the j-th byte of the
\* SHA-256 digest of a byte string, kept as what it is the digest of (two
\* digests agree exactly when they are digests of the same bytes).
PlainByte(n) == [digestOf |-> <<>>, n |-> n]
DigestByte(bytes, j) == [digestOf |-> <<bytes>>, n |-> j]

\* createHash('sha256').update(bytes).digest(): 32 bytes.
sha256(bytes) == [j \in 1..32 |-> DigestByte(bytes, j)]

Plain(bytes) == [i \in 1..Len(bytes) |-> PlainByte(bytes[i])]

\* buf.subarray(offset, offset + n), offsets counted from 0.
Subarray(buf, offset, n) == SubSeq(buf, offset + 1, offset + n)

\* readUInt8 / readUInt16LE / the 8-byte reads, on cells of known value.
RECURSIVE ReadLE(_)
ReadLE(cells) == IF cells = <<>> THEN 0 ELSE cells[1].n + 256 * ReadLE(Tail(cells))

\* 'global:log_event' and 'account:SecurityEvent', in bytes.
LOG_EVENT_NAME ==
    <<103, 108, 111, 98, 97, 108, 58, 108, 111, 103, 95, 101, 118, 101, 110, 116>>
SECURITY_EVENT_NAME ==
    <<97, 99, 99, 111, 117, 110, 116, 58, 83, 101, 99, 117, 114, 105, 116, 121,
      69, 118, 101, 110, 116>>

IX_LOG_EVENT == Subarray(sha256(LOG_EVENT_NAME), 0, 8)
SECURITY_EVENT_DISCRIMINATOR == Subarray(sha256(SECURITY_EVENT_NAME), 0, 8)

\* this.hashDetails(params.details)
hashDetails(details) == sha256(Utf8(details))

Min(a, b) == IF a <= b THEN a ELSE b

\* logSecurityEvent: the instruction data.
encodeLogEvent(params) ==
    LET actionHash == hashDetails(params.details)
        detailsLen == Len(Utf8(params.details))
    IN  IX_LOG_EVENT
        \o <<PlainByte(params.type)>>
        \o actionHash
        \o <<PlainByte(IF params.allowed THEN 1 ELSE 0)>>
        \o Plain(LittleEndian(Min(detailsLen, 65535), 2))

\* The ledger program's log_event: the event account it creates from the
\* instruction data, in the fixed layout of the record.
ProgramEventAccount(data, principal, index, timestamp, bump) ==
    SECURITY_EVENT_DISCRIMINATOR
    \o Plain(principal)
    \o Subarray(data, 8, 1)
    \o Subarray(data, 9, 32)
    \o Subarray(data, 41, 1)
    \o Plain(LittleEndian(timestamp, 8))
    \o Plain(LittleEndian(index, 8))
    \o Subarray(data, 42, 2)
    \o <<PlainByte(bump)>>

NullEvent == [null |-> TRUE]

\* A parse that takes the 32 bytes of the hash one byte early.
parseSecurityEventStatic_hashOffset(data) ==
    IF Len(data) < 8 + 32 + 1 + 32 + 1 + 8 + 8 + 2 + 1 THEN NullEvent
    ELSE [null |-> FALSE,
          authority |-> Subarray(data, 8, 32),
          eventType |-> ReadLE(Subarray(data, 40, 1)),
          actionHash |-> Subarray(data, 40, 32),
          allowed |-> ReadLE(Subarray(data, 73, 1)) = 1,
          timestamp |-> ReadLE(Subarray(data, 74, 8)),
          eventIndex |-> ReadLE(Subarray(data, 82, 8)),
          detailsLen |-> ReadLE(Subarray(data, 90, 2)),
          bump |-> ReadLE(Subarray(data, 92, 1))]

\* OnchainAuditLogger.parseSecurityEventStatic(data, address)
parseSecurityEventStatic(data) ==
    IF Len(data) < 8 + 32 + 1 + 32 + 1 + 8 + 8 + 2 + 1 THEN NullEvent
    ELSE [null |-> FALSE,
          authority |-> Subarray(data, 8, 32),
          eventType |-> ReadLE(Subarray(data, 40, 1)),
          actionHash |-> Subarray(data, 41, 32),
          allowed |-> ReadLE(Subarray(data, 73, 1)) = 1,
          timestamp |-> ReadLE(Subarray(data, 74, 8)),
          eventIndex |-> ReadLE(Subarray(data, 82, 8)),
          detailsLen |-> ReadLE(Subarray(data, 90, 2)),
          bump |-> ReadLE(Subarray(data, 92, 1))]

\* OnchainAuditLogger.verifyEventDetails(event, details): hash.equals.
verifyEventDetails(event, details) == sha256(Utf8(details)) = event.actionHash

\* The LogEventParams of the model.
LogEventParamsSet == [type : {0, 3}, allowed : BOOLEAN, details : DetailsStrings]

NothingLogged == [details |-> <<>>, data |-> <<>>]

\* logSecurityEvent(params) by logger 1, run to its end with a write that
\* succeeds: the event account that results.
Digest_logSecurityEvent(params) ==
    /\ logged' = [details |-> params.details,
                  data |-> ProgramEventAccount(encodeLogEvent(params), wallet[1], 0, now, 255)]
    /\ lastOp' = [op |-> "logSecurityEvent"]
    /\ ret' = [op |-> "logSecurityEvent"]
    /\ UNCHANGED <<now, limitsVars, registryVars, firewallVars, auditVars, pdaVars,
                   wrapperVars, guardVars>>

\* getEvent(0), then verifyEventDetails(event, details).
Digest_verifyEventDetails(details) ==
    /\ logged # NothingLogged
    /\ LET event == parseSecurityEventStatic(logged.data) IN
        /\ ~event.null
        /\ lastOp' = [op |-> "verifyEventDetails"]
        /\ ret' = [op |-> "verifyEventDetails", logged |-> logged.details,
                   event |-> event, details |-> details,
                   result |-> verifyEventDetails(event, details)]
    /\ UNCHANGED <<now, limitsVars, registryVars, firewallVars, auditVars, pdaVars, logged,
                   wrapperVars, guardVars>>

DigestInit == logged = NothingLogged
DigestIdle == DigestInit

(***************************************************************************)
(* AgentGuard                                                              *)
(***************************************************************************)

\* The AgentGuardConfig objects of the model: the convenience caps, and a
\* firewall section with or without requireSimulation and payerPublicKey.
GuardConfigs ==
    [maxDailySpend : {c.maxDailySpend : c \in FirewallLimitConfigs},
     maxPerTxSpend : {c.maxPerTxSpend : c \in FirewallLimitConfigs},
     firewall : [requireSimulation : {Undefined, Some(TRUE), Some(FALSE)},
                 payerPublicKey : BOOLEAN]]

\* new AgentGuard(config): the FirewallConfig it hands to TransactionFirewall.
\* The object literal has no payerPublicKey property.
AgentGuardFirewallConfig(config) ==
    [maxDailySpend |-> config.maxDailySpend,
     maxPerTxSpend |-> config.maxPerTxSpend,
     requireSimulation |-> IF config.firewall.requireSimulation.has
                           THEN config.firewall.requireSimulation.value
                           ELSE TRUE,
     payerPublicKey |-> FALSE]

\* The firewall is one that some AgentGuard has built.
BuiltByAgentGuard ==
    \E config \in GuardConfigs :
        LET f == AgentGuardFirewallConfig(config) IN
        /\ maxDaily = f.maxDailySpend
        /\ maxPerTx = f.maxPerTxSpend
        /\ requireSimulation = f.requireSimulation
        /\ payerPublicKey = f.payerPublicKey

\* AgentGuard.checkTransaction(tx): the GuardResult for the firewall's result.
checkTransaction(firewallResult) ==
    [allowed |-> firewallResult.allowed,
     reason |-> firewallResult.reason,
     warnings |-> IF firewallResult.warnings.has THEN firewallResult.warnings.value ELSE <<>>,
     firewall |-> firewallResult]

(***************************************************************************)
(* GuardedSolanaAgent                                                      *)
(***************************************************************************)

\* The wrapper calls that can be in flight together.
WSlots == {1, 2}

\* The caps of the wrapped guard, and the lamports callers ask to move.
WrapperLimitConfig == [maxDailySpend |-> 3, maxPerTxSpend |-> 2]
WrapperAmounts == {1, 2, 3}

\* options.customCheck: absent, or a function that resolves to
\* { allowed, reason? } or rejects.
NoCheck == [kind |-> "none", allowed |-> TRUE, reason |-> Undefined]
CustomChecks ==
    {[kind |-> "returns", allowed |-> TRUE, reason |-> Undefined],
     [kind |-> "returns", allowed |-> FALSE, reason |-> Some("Custom block")],
     [kind |-> "returns", allowed |-> FALSE, reason |-> Undefined],
     [kind |-> "throws", allowed |-> FALSE, reason |-> Undefined]}

\* What the awaited action has come to: its value, or the message of what
\* it threw.
Succeeded(value) == [kind |-> "success", text |-> value]
Failed(message) == [kind |-> "error", text |-> message]
Pending == [kind |-> "pending", text |-> "pending"]

NoWrapperCall ==
    [action |-> "none", lamports |-> 0, check |-> NoCheck, warnings |-> <<>>,
     outcome |-> Pending]

\* `[DRY RUN] Would block: ${check.reason}`
DryRunWarning(reason) == [text |-> "[DRY RUN] Would block: ", reason |-> reason]

GuardedAction(success, result, blocked, reason, w, auditId) ==
    [success |-> success, result |-> result, blocked |-> blocked, reason |-> reason,
     warnings |-> w, auditId |-> auditId]

NoGuardedAction == [success |-> FALSE, result |-> Undefined, blocked |-> Undefined,
                    reason |-> Undefined, warnings |-> <<>>, auditId |-> Undefined]

\* The entry guard.audit.log({ action, details }) appends; its id is its
\* place in the log.
AuditEntry(action, outcome) ==
    [id |-> Len(auditLog) + 1, action |-> action,
     details |-> [result |-> outcome.kind,
                  error |-> IF outcome.kind = "error" THEN Some(outcome.text) ELSE Undefined]]

\* A wrapper call starts in slot c, the first slot that is free.
WrapperCall(c, op) ==
    /\ wpc[c] = "idle"
    /\ \A d \in WSlots : d < c => wpc[d] # "idle"
    /\ calls < MaxCalls
    /\ calls' = calls + 1
    /\ usedOps' = usedOps \cup {op}
    /\ wserial' = (wserial /\ \A d \in WSlots \ {c} : wpc[d] = "idle")
    /\ notified' = [notified EXCEPT ![c] = Undefined]
    /\ UNCHANGED <<dryRun, hasOnBlocked, wret, auditLog>>

outsideWrapper == <<registryVars, firewallVars, auditVars, pdaVars, logged, guardVars,
                    lastOp, ret>>

\* The ledger is left as the rollover of getStatus() leaves it.
LedgerRead ==
    /\ dailySpend' = maybeResetDaily.dailySpend
    /\ lastResetDate' = maybeResetDaily.lastResetDate
    /\ UNCHANGED <<now, maxDaily, maxPerTx, approved, seqUse>>

LedgerUntouched == UNCHANGED <<now, limitsVars>>

\* The action function of transfer, up to its await or its throw: where the
\* call is then, and whether kit.transfer was invoked.
transferFn_noDailyCheck(to, lamports) ==
    LET spent == maybeResetDaily.dailySpend
        perTxLimit == maxPerTx
    IN  IF lamports > perTxLimit
        THEN [pc |-> "audit.log", ran |-> FALSE,
              outcome |-> Failed("Per-transaction limit exceeded")]
        ELSE IF to = "invalid"
        THEN [pc |-> "audit.log", ran |-> FALSE, outcome |-> Failed("Invalid public key input")]
        ELSE [pc |-> "kit.transfer", ran |-> TRUE, outcome |-> Pending]

transferFn(to, lamports) ==
    LET spent == maybeResetDaily.dailySpend
        perTxLimit == maxPerTx
        remainingDaily == maxDaily - spent
    IN  IF lamports > perTxLimit
        THEN [pc |-> "audit.log", ran |-> FALSE,
              outcome |-> Failed("Per-transaction limit exceeded")]
        ELSE IF lamports > remainingDaily
        THEN [pc |-> "audit.log", ran |-> FALSE,
              outcome |-> Failed("Daily spending limit exceeded")]
        ELSE IF to = "invalid"
        THEN [pc |-> "audit.log", ran |-> FALSE, outcome |-> Failed("Invalid public key input")]
        ELSE [pc |-> "kit.transfer", ran |-> TRUE, outcome |-> Pending]

\* The action function of stake, up to its await or its throw.
stakeFn(lamports) ==
    LET perTxLimit == maxPerTx
    IN  IF lamports > perTxLimit
        THEN [pc |-> "audit.log", ran |-> FALSE, outcome |-> Failed("Staking limit exceeded")]
        ELSE [pc |-> "kit.stake", ran |-> TRUE, outcome |-> Pending]

\* transfer(to, lamports) is called: execute('transfer', fn) with no custom
\* check runs fn at once.
Wrapper_transfer(c, to, lamports) ==
    LET f == transferFn(to, lamports) IN
    /\ WrapperCall(c, "transfer")
    /\ wpc' = [wpc EXCEPT ![c] = f.pc]
    /\ wcall' = [wcall EXCEPT ![c] = [action |-> "transfer", lamports |-> lamports,
                                      check |-> NoCheck, warnings |-> <<>>,
                                      outcome |-> f.outcome]]
    /\ ran' = [ran EXCEPT ![c] = f.ran]
    /\ LedgerRead
    /\ UNCHANGED outsideWrapper

\* stake(lamports) is called.
Wrapper_stake(c, lamports) ==
    LET f == stakeFn(lamports) IN
    /\ WrapperCall(c, "stake")
    /\ wpc' = [wpc EXCEPT ![c] = f.pc]
    /\ wcall' = [wcall EXCEPT ![c] = [action |-> "stake", lamports |-> lamports,
                                      check |-> NoCheck, warnings |-> <<>>,
                                      outcome |-> f.outcome]]
    /\ ran' = [ran EXCEPT ![c] = f.ran]
    /\ LedgerRead
    /\ UNCHANGED outsideWrapper

\* execute(action, fn, { customCheck }) is called with an action function of
\* the caller's: the custom check is awaited first, if there is one.
Wrapper_execute(c, check) ==
    /\ WrapperCall(c, "execute")
    /\ wpc' = [wpc EXCEPT ![c] = IF check.kind = "none" THEN "fn" ELSE "customCheck"]
    /\ wcall' = [wcall EXCEPT ![c] = [action |-> "test", lamports |-> 0, check |-> check,
                                      warnings |-> <<>>, outcome |-> Pending]]
    /\ ran' = [ran EXCEPT ![c] = check.kind = "none"]
    /\ LedgerUntouched
    /\ UNCHANGED outsideWrapper

\* The wrapper's variables after a step of slot c's call that starts no
\* call and writes no log entry.
WrapperStep(c, at, locals) ==
    /\ wpc' = [wpc EXCEPT ![c] = at]
    /\ wcall' = [wcall EXCEPT ![c] = locals]
    /\ UNCHANGED <<dryRun, hasOnBlocked, auditLog, calls, usedOps, wserial, outsideWrapper>>

\* this.config.onBlocked?.(action, check.reason || 'Custom check failed', ..)
onBlocked(action, reason) ==
    IF hasOnBlocked
    THEN Some([action |-> action,
               reason |-> IF reason.has THEN reason.value ELSE "Custom check failed"])
    ELSE Undefined

\* An execute that returns the block in dry-run mode too.
Wrapper_customCheckReturns_alwaysBlocks(c) ==
    /\ wpc[c] = "customCheck"
    /\ LET check == wcall[c].check IN
       IF check.kind = "throws"
       THEN /\ WrapperStep(c, "audit.log", [wcall[c] EXCEPT !.outcome = Failed("check error")])
            /\ UNCHANGED <<ran, notified, wret>>
       ELSE IF check.allowed
       THEN /\ WrapperStep(c, "fn", wcall[c])
            /\ ran' = [ran EXCEPT ![c] = TRUE]
            /\ UNCHANGED <<notified, wret>>
       ELSE /\ notified' = [notified EXCEPT ![c] = onBlocked(wcall[c].action, check.reason)]
            /\ WrapperStep(c, "idle", NoWrapperCall)
            /\ wret' = [wret EXCEPT ![c] =
                           GuardedAction(FALSE, Undefined, Some(TRUE), check.reason,
                                         wcall[c].warnings, Undefined)]
            /\ ran' = ran
    /\ LedgerUntouched

\* execute: the custom check returns or throws.
Wrapper_customCheckReturns(c) ==
    /\ wpc[c] = "customCheck"
    /\ LET check == wcall[c].check IN
       IF check.kind = "throws"
       THEN /\ WrapperStep(c, "audit.log", [wcall[c] EXCEPT !.outcome = Failed("check error")])
            /\ UNCHANGED <<ran, notified, wret>>
       ELSE IF check.allowed
       THEN /\ WrapperStep(c, "fn", wcall[c])
            /\ ran' = [ran EXCEPT ![c] = TRUE]
            /\ UNCHANGED <<notified, wret>>
       ELSE /\ notified' = [notified EXCEPT ![c] = onBlocked(wcall[c].action, check.reason)]
            /\ IF ~dryRun
               THEN /\ WrapperStep(c, "idle", NoWrapperCall)
                    /\ wret' = [wret EXCEPT ![c] =
                                   GuardedAction(FALSE, Undefined, Some(TRUE), check.reason,
                                                 wcall[c].warnings, Undefined)]
                    /\ ran' = ran
               ELSE /\ WrapperStep(c, "fn",
                                   [wcall[c] EXCEPT !.warnings =
                                        Append(@, DryRunWarning(check.reason))])
                    /\ ran' = [ran EXCEPT ![c] = TRUE]
                    /\ wret' = wret
    /\ LedgerUntouched

\* execute: the caller's action function resolves or rejects.
Wrapper_fnReturns(c) ==
    /\ wpc[c] = "fn"
    /\ \E ok \in BOOLEAN :
          WrapperStep(c, "audit.log",
                      [wcall[c] EXCEPT !.outcome = IF ok THEN Succeeded("success")
                                                   ELSE Failed("Action failed")])
    /\ UNCHANGED <<ran, notified, wret>>
    /\ LedgerUntouched

\* transfer, stake: the kit's method resolves, and the spend is recorded, or
\* it rejects.
Wrapper_kitReturns(c) ==
    /\ wpc[c] \in {"kit.transfer", "kit.stake"}
    /\ \E ok \in BOOLEAN :
          IF ok
          THEN /\ dailySpend' = maybeResetDaily.dailySpend + wcall[c].lamports
               /\ lastResetDate' = maybeResetDaily.lastResetDate
               /\ UNCHANGED <<now, maxDaily, maxPerTx, approved, seqUse>>
               /\ WrapperStep(c, "audit.log", [wcall[c] EXCEPT !.outcome = Succeeded("txid")])
          ELSE /\ LedgerUntouched
               /\ WrapperStep(c, "audit.log", [wcall[c] EXCEPT !.outcome = Failed("kit error")])
    /\ UNCHANGED <<ran, notified, wret>>

\* execute: guard.audit.log resolves with the id of the entry, and execute
\* returns.
Wrapper_auditLogged(c) ==
    /\ wpc[c] = "audit.log"
    /\ LET entry == AuditEntry(wcall[c].action, wcall[c].outcome) IN
       /\ auditLog' = Append(auditLog, entry)
       /\ wret' = [wret EXCEPT ![c] =
                      IF wcall[c].outcome.kind = "success"
                      THEN GuardedAction(TRUE, Some(wcall[c].outcome.text), Undefined,
                                         Undefined, wcall[c].warnings, Some(entry.id))
                      ELSE GuardedAction(FALSE, Undefined, Undefined,
                                         Some(wcall[c].outcome.text), wcall[c].warnings,
                                         Some(entry.id))]
    /\ wpc' = [wpc EXCEPT ![c] = "idle"]
    /\ wcall' = [wcall EXCEPT ![c] = NoWrapperCall]
    /\ UNCHANGED <<dryRun, hasOnBlocked, ran, notified, calls, usedOps, wserial>>
    /\ LedgerUntouched
    /\ UNCHANGED outsideWrapper

\* new GuardedSolanaAgent(kit, guard, config)
WrapperInit(dry, onBlockedSet) ==
    /\ dryRun = dry
    /\ hasOnBlocked = onBlockedSet
    /\ wpc = [c \in WSlots |-> "idle"]
    /\ wcall = [c \in WSlots |-> NoWrapperCall]
    /\ ran = [c \in WSlots |-> FALSE]
    /\ notified = [c \in WSlots |-> Undefined]
    /\ wret = [c \in WSlots |-> NoGuardedAction]
    /\ auditLog = <<>>
    /\ calls = 0
    /\ usedOps = {}
    /\ wserial = TRUE

\* The stand-in wrapper of a specification that does not use it.
WrapperIdle == WrapperInit(FALSE, FALSE)

(***************************************************************************)
(* AgentGuard.checkTransaction, and the local audit log                    *)
(***************************************************************************)

\* The action names checkTransaction is called with ('transaction' is the
\* default).
GuardActions == {"transaction", "transfer"}

\* AgentGuard.extractProgramIds(tx): the program id of every instruction.
Guard_extractProgramIds(t) ==
    [i \in DOMAIN t.instructions |-> t.instructions[i].programId]

NoGuardCall ==
    [action |-> "none", tx |-> NoTransaction, firewall |-> NoResult, warnings |-> <<>>]

GuardResult(allowed, reason, w, firewall, auditId) ==
    [allowed |-> allowed, reason |-> reason, warnings |-> w, firewall |-> firewall,
     auditId |-> auditId]

NoGuardResult == GuardResult(FALSE, NoReason, <<>>, NoResult, Undefined)

\* The entry audit.logTransactionCheck(action, details, firewallResult)
\* appends; its id is its place in the log.
TransactionCheckEntry(action, details, firewallResult) ==
    [id |-> Len(auditLog) + 1, action |-> action, details |-> details,
     firewallResult |-> firewallResult]

\* checkTransaction(tx, action) is called: firewall.check(tx) runs up to its
\* first await, or to its return.
Guard_checkTransaction(t, action) ==
    /\ gpc = "idle"
    /\ pc = "idle"
    /\ Len(auditLog) < MaxLog
    /\ Step(checkPrograms(t))
    /\ gpc' = "firewall.check"
    /\ gcall' = [action |-> action, tx |-> t, firewall |-> NoResult, warnings |-> <<>>]
    /\ UNCHANGED <<now, limitsVars, registryVars, auditVars, pdaVars, logged, wrapperVars,
                   gret>>

\* A checkTransaction that logs the denied transactions only.
Guard_firewallReturned_deniedOnly ==
    /\ gpc = "firewall.check"
    /\ pc = "idle"
    /\ LET firewallResult == ret.result
           w == IF firewallResult.warnings.has THEN firewallResult.warnings.value ELSE <<>>
       IN  IF firewallResult.allowed
           THEN /\ gpc' = "idle"
                /\ gcall' = NoGuardCall
                /\ gret' = GuardResult(TRUE, firewallResult.reason, w, firewallResult,
                                       Undefined)
           ELSE /\ gpc' = "audit.log"
                /\ gcall' = [gcall EXCEPT !.firewall = firewallResult, !.warnings = w]
                /\ gret' = gret
    /\ UNCHANGED <<now, limitsVars, registryVars, firewallVars, auditVars, pdaVars, logged,
                   wrapperVars, lastOp, ret>>

\* checkTransaction: firewall.check has returned; its warnings are copied
\* and audit.logTransactionCheck is called.
Guard_firewallReturned ==
    /\ gpc = "firewall.check"
    /\ pc = "idle"
    /\ LET firewallResult == ret.result
           w == IF firewallResult.warnings.has THEN firewallResult.warnings.value ELSE <<>>
       IN  /\ gpc' = "audit.log"
           /\ gcall' = [gcall EXCEPT !.firewall = firewallResult, !.warnings = w]
    /\ UNCHANGED <<now, limitsVars, registryVars, firewallVars, auditVars, pdaVars, logged,
                   wrapperVars, gret, lastOp, ret>>

\* checkTransaction: audit.logTransactionCheck resolves with the id of the
\* entry, and checkTransaction returns.
Guard_auditLogged ==
    /\ gpc = "audit.log"
    /\ LET firewallResult == gcall.firewall
           entry == TransactionCheckEntry(
                        gcall.action,
                        [programIds |-> Guard_extractProgramIds(gcall.tx),
                         allowed |-> firewallResult.allowed],
                        [allowed |-> firewallResult.allowed,
                         reason |-> firewallResult.reason])
       IN  /\ auditLog' = Append(auditLog, entry)
           /\ gret' = GuardResult(firewallResult.allowed, firewallResult.reason,
                                  gcall.warnings, firewallResult, Some(entry.id))
    /\ gpc' = "idle"
    /\ gcall' = NoGuardCall
    /\ UNCHANGED <<now, limitsVars, registryVars, firewallVars, auditVars, pdaVars, logged,
                   dryRun, hasOnBlocked, wpc, wcall, ran, notified, wret, calls, usedOps,
                   wserial, lastOp, ret>>

\* new AgentGuard(config): no checkTransaction is running.
GuardInit ==
    /\ gpc = "idle"
    /\ gcall = NoGuardCall
    /\ gret = NoGuardResult

\* The stand-in guard of a specification that does not use it.
GuardIdle == GuardInit

(***************************************************************************)
(* TransactionSimulator: the bytes of a transfer instruction               *)
(***************************************************************************)

\* The payloads instructions are given: a 4-byte tag, 8 bytes of amount and
\* what may follow them, whole or cut short.
TagBytes == {<<2, 0, 0, 0>>, <<0, 0, 0, 2>>, <<2, 0, 0, 1>>, <<2, 1, 0, 0>>, <<3, 0, 0, 0>>}
AmountBytes ==
    {<<0, 0, 0, 0, 0, 0, 0, 0>>, <<1, 0, 0, 0, 0, 0, 0, 0>>, <<0, 1, 0, 0, 0, 0, 0, 0>>,
     <<255, 255, 0, 0, 0, 0, 0, 0>>, <<2, 0, 3, 0, 0, 0, 0, 0>>}
InstructionPayloads ==
    LET whole == {tag \o amount \o rest :
                     tag \in TagBytes, amount \in AmountBytes, rest \in {<<>>, <<2>>}}
    IN  whole \cup {SubSeq(d, 1, n) : d \in whole, n \in {0, 4, 11}}

\* tx.message.staticAccountKeys of the versioned transactions.
staticAccountKeys == <<<<"j", "P">>, SystemProgramId, <<"T", "k">>>>

\* data.readUInt32LE(offset) / data.readBigUInt64LE(offset): the bytes from
\* offset on, lowest first.
RECURSIVE readUIntLE(_, _, _)
readUIntLE(data, offset, n) ==
    IF n = 0 THEN 0
    ELSE data[offset + 1] + 256 * readUIntLE(data, offset + 1, n - 1)

\* A recognition that does not look at the program the instruction targets.
extractSpendFromData_anyProgram(programId, data) ==
    IF Len(data) >= 12
    THEN IF readUIntLE(data, 0, 4) = 2
         THEN readUIntLE(data, 4, 8)
         ELSE 0
    ELSE 0

\* The body the two extractSpendFrom.. methods share.
extractSpendFromData(programId, data) ==
    IF programId = SystemProgramId
    THEN IF Len(data) >= 12
         THEN IF readUIntLE(data, 0, 4) = 2
              THEN readUIntLE(data, 4, 8)
              ELSE 0
         ELSE 0
    ELSE 0

\* extractSpendFromLegacyInstruction(ix)
extractSpendFromLegacyInstruction(ix) == extractSpendFromData(ix.programId, ix.data)

\* extractSpendFromCompiledInstruction(ix, tx)
extractSpendFromCompiledInstruction(ix, keys) ==
    extractSpendFromData(keys[ix.programIdIndex + 1], ix.data)

\* The simulator reads the spend of one instruction of a legacy transaction.
Simulator_extractSpendFromLegacyInstruction(ix) ==
    /\ lastOp' = [op |-> "extractSpendFromLegacyInstruction"]
    /\ ret' = [op |-> "extractSpend", programId |-> ix.programId, data |-> ix.data,
               spend |-> extractSpendFromLegacyInstruction(ix)]
    /\ UNCHANGED <<now, limitsVars, registryVars, firewallVars, auditVars, clientVars>>

\* The simulator reads the spend of one instruction of a versioned
\* transaction.
Simulator_extractSpendFromCompiledInstruction(ix) ==
    /\ lastOp' = [op |-> "extractSpendFromCompiledInstruction"]
    /\ ret' = [op |-> "extractSpend", programId |-> staticAccountKeys[ix.programIdIndex + 1],
               data |-> ix.data,
               spend |-> extractSpendFromCompiledInstruction(ix, staticAccountKeys)]
    /\ UNCHANGED <<now, limitsVars, registryVars, firewallVars, auditVars, clientVars>>

(***************************************************************************)
(* OnchainAuditLogger: the decoding of stored records                      *)
(***************************************************************************)

\* 'account:AuditAuthority', in bytes.
AUDIT_AUTHORITY_NAME ==
    <<97, 99, 99, 111, 117, 110, 116, 58, 65, 117, 100, 105, 116, 65, 117, 116,
      104, 111, 114, 105, 116, 121>>

AUDIT_AUTHORITY_DISCRIMINATOR == Subarray(sha256(AUDIT_AUTHORITY_NAME), 0, 8)

\* The Authority record the ledger program keeps, in the fixed layout of
\* the record.
ProgramAuthorityAccount(principal, count, createdAt, bump) ==
    AUDIT_AUTHORITY_DISCRIMINATOR
    \o Plain(principal)
    \o Plain(LittleEndian(count, 8))
    \o Plain(LittleEndian(createdAt, 8))
    \o <<PlainByte(bump)>>

\* Number(data.readBigUInt64LE(offset)) and the like: the number, or, where
\* bytes of a digest are read, the bytes that determine it.
NumberAt(data, offset, n) ==
    LET cells == Subarray(data, offset, n) IN
    IF \A i \in 1..n : cells[i].digestOf = <<>>
    THEN [bytes |-> <<>>, n |-> ReadLE(cells)]
    ELSE [bytes |-> cells, n |-> 0]

\* What getAccountInfo can return for an address of the trail: no account,
\* an Authority record, a SecurityEvent record, an account of 93 zero bytes
\* (allocated, never written), or a record cut short.
StoredAccounts ==
    LET authorities == {ProgramAuthorityAccount(k, n, t, 255) :
                           k \in {KeyA, KeyB}, n \in {0, 1, 2, 256}, t \in {0, 1}}
        securityEvents == {ProgramEventAccount(encodeLogEvent(params), k, i, 1, 254) :
                              params \in [type : {0, 3}, allowed : BOOLEAN,
                                          details : {<<>>, <<97>>, <<97, 233>>}],
                              k \in {KeyA, KeyB}, i \in {0, 1}}
        zeros == {[i \in 1..93 |-> PlainByte(0)]}
        whole == authorities \cup securityEvents \cup zeros
    IN  {NoAccountInfo} \cup {AccountInfo(d) : d \in whole}
        \cup {AccountInfo(SubSeq(d, 1, 56)) : d \in whole}

NullAuthority == [null |-> TRUE]

\* getAuthority(): what it makes of the account info it was given.
decodeAuthority(accountInfo) ==
    IF accountInfo.null \/ Len(accountInfo.data) < 8 + 49
    THEN NullAuthority
    ELSE LET data == accountInfo.data IN
         [null |-> FALSE,
          authority |-> Subarray(data, 8, 32),
          eventCount |-> NumberAt(data, 40, 8),
          createdAt |-> NumberAt(data, 48, 8),
          bump |-> NumberAt(data, 56, 1)]

\* getEvent(eventIndex): what it makes of the account info it was given.
decodeEvent(accountInfo) ==
    IF accountInfo.null THEN NullEvent
    ELSE parseSecurityEventStatic(accountInfo.data)

\* getAuthority() on a ledger that answers with accountInfo.
Decode_getAuthority(accountInfo) ==
    /\ lastOp' = [op |-> "getAuthority"]
    /\ ret' = [op |-> "decode", expected |-> AUDIT_AUTHORITY_DISCRIMINATOR,
               accountInfo |-> accountInfo, result |-> decodeAuthority(accountInfo)]
    /\ UNCHANGED <<now, limitsVars, registryVars, firewallVars, auditVars, clientVars>>

\* getEvent(i), or the static accessor's read of an event, on a ledger that
\* answers with accountInfo.
Decode_getEvent(accountInfo) ==
    /\ lastOp' = [op |-> "getEvent"]
    /\ ret' = [op |-> "decode", expected |-> SECURITY_EVENT_DISCRIMINATOR,
               accountInfo |-> accountInfo, result |-> decodeEvent(accountInfo)]
    /\ UNCHANGED <<now, limitsVars, registryVars, firewallVars, auditVars, clientVars>>

(***************************************************************************)
(* OnchainAuditLogger: the trails of several principals on one ledger      *)
(***************************************************************************)

\* 'global:initialize' and 'global:close_event', in bytes.
INITIALIZE_NAME ==
    <<103, 108, 111, 98, 97, 108, 58, 105, 110, 105, 116, 105, 97, 108, 105, 122, 101>>
CLOSE_EVENT_NAME ==
    <<103, 108, 111, 98, 97, 108, 58, 99, 108, 111, 115, 101, 95, 101, 118, 101,
      110, 116>>

\* const IX_INITIALIZE / IX_CLOSE_EVENT: the first 8 bytes of the digest.
IX_INITIALIZE == Subarray(sha256(INITIALIZE_NAME), 0, 8)
IX_CLOSE_EVENT == Subarray(sha256(CLOSE_EVENT_NAME), 0, 8)

\* One entry of the keys of an instruction.
AccountMeta(pubkey, isSigner, isWritable) ==
    [pubkey |-> pubkey, isSigner |-> isSigner, isWritable |-> isWritable]

\* new TransactionInstruction({ programId: PROGRAM_ID, keys, data })
TransactionInstruction(keys, data) ==
    [programId |-> PROGRAM_ID, keys |-> keys, data |-> data]

\* A getAuthorityPda() that answers with the address any logger has cached.
getAuthorityPda_sharedCache(l) ==
    IF \E k \in Loggers : ~authorityPda[k].null
    THEN authorityPda[CHOOSE k \in Loggers : ~authorityPda[k].null]
    ELSE [null |-> FALSE,
          address |-> deriveAuthorityPda(wallet[l]).address,
          bump |-> deriveAuthorityPda(wallet[l]).bump]

\* this.getAuthorityPda(): the cached address of the logger, or the one
\* derived from its wallet (which the callers below then cache).
getAuthorityPda(l) ==
    IF ~authorityPda[l].null
    THEN authorityPda[l]
    ELSE [null |-> FALSE,
          address |-> deriveAuthorityPda(wallet[l]).address,
          bump |-> deriveAuthorityPda(wallet[l]).bump]

\* this.getEventPda(eventIndex)
eventPdaOf(l, index) == deriveEventPda(wallet[l], index)

\* initialize(): the instruction it builds.
initializeInstruction(l) ==
    TransactionInstruction(
        <<AccountMeta(getAuthorityPda(l).address, FALSE, TRUE),
          AccountMeta(wallet[l], TRUE, TRUE),
          AccountMeta(SystemProgramId, FALSE, FALSE)>>,
        IX_INITIALIZE)

\* logSecurityEvent(params): the instruction it builds for the event index
\* it has read.
logEventInstruction(l, index, params) ==
    TransactionInstruction(
        <<AccountMeta(getAuthorityPda(l).address, FALSE, TRUE),
          AccountMeta(eventPdaOf(l, index).address, FALSE, TRUE),
          AccountMeta(wallet[l], TRUE, TRUE),
          AccountMeta(SystemProgramId, FALSE, FALSE)>>,
        encodeLogEvent(params))

\* closeEvent(eventIndex): the instruction it builds.
closeEventInstruction(l, index) ==
    TransactionInstruction(
        <<AccountMeta(getAuthorityPda(l).address, FALSE, FALSE),
          AccountMeta(eventPdaOf(l, index).address, FALSE, TRUE),
          AccountMeta(wallet[l], TRUE, TRUE)>>,
        IX_CLOSE_EVENT)

\* new Transaction().add(ix), with the signers it is sent with.
SentTransaction(ix, signers) == [ix |-> ix, signers |-> signers]

\* The program, on an instruction signed by `signer`: the ledger it leaves,
\* or its rejection.  initialize creates the Authority record of the signer
\* at the signer's Authority address if none is there; log_event writes the
\* event of index eventCount at the signer's event address of that index and
\* increments eventCount; close_event deletes an event of the signer.
ProgramApply(ledger, ix, signer) ==
    LET a == ix.keys[1].pubkey
        rejected == [ok |-> FALSE, ledger |-> ledger]
    IN
    IF a # deriveAuthorityPda(signer).address \/ a \notin DOMAIN ledger
    THEN rejected
    ELSE IF ix.data = IX_INITIALIZE
    THEN IF ledger[a].null
         THEN [ok |-> TRUE,
               ledger |-> [ledger EXCEPT
                   ![a] = AccountInfo(ProgramAuthorityAccount(signer, 0, now, 255))]]
         ELSE rejected
    ELSE LET e == ix.keys[2].pubkey
             stored == decodeAuthority(ledger[a])
         IN
         IF stored.null \/ e \notin DOMAIN ledger
         THEN rejected
         ELSE IF ix.data = IX_CLOSE_EVENT
         THEN IF /\ \E i \in TrailIndexes : e = deriveEventPda(signer, i).address
                 /\ ~ledger[e].null
              THEN [ok |-> TRUE, ledger |-> [ledger EXCEPT ![e] = NoAccountInfo]]
              ELSE rejected
         ELSE LET n == stored.eventCount.n IN
              IF /\ Subarray(ix.data, 0, 8) = IX_LOG_EVENT
                 /\ e = deriveEventPda(signer, n).address
                 /\ ledger[e].null
              THEN [ok |-> TRUE,
                    ledger |-> [ledger EXCEPT
                        ![a] = AccountInfo(ProgramAuthorityAccount(
                                   signer, n + 1, stored.createdAt.n, 255)),
                        ![e] = AccountInfo(ProgramEventAccount(
                                   ix.data, signer, n, now, 255))]]
              ELSE rejected

\* The optional limit of the readers.
NoLimit == [has |-> FALSE, n |-> 0]
Limit(n) == [has |-> TRUE, n |-> n]
Limits == {NoLimit} \cup {Limit(n) : n \in 0..2}

\* `limit ? a : b`: undefined and 0 take the second branch.
Truthy(limit) == limit.has /\ limit.n # 0

\* for (let i = eventCount - 1; i >= lowest; i--): the events read at the
\* addresses of the indices from i down to lowest, those that are null left
\* out.
RECURSIVE eventsDownTo(_, _, _, _)
eventsDownTo(ledger, publicKey, i, lowest) ==
    IF i < lowest THEN <<>>
    ELSE LET pda == deriveEventPda(publicKey, i).address
             event == decodeEvent(ledger[pda])
         IN  (IF event.null THEN <<>> ELSE <<[address |-> pda, event |-> event]>>)
             \o eventsDownTo(ledger, publicKey, i - 1, lowest)

Returned(found) == [threw |-> FALSE, events |-> found]
Thrown == [threw |-> TRUE, events |-> <<>>]

\* logger.getEvents(limit), on a ledger.
getEvents(ledger, l, limit) ==
    LET stored == decodeAuthority(ledger[getAuthorityPda(l).address]) IN
    IF stored.null THEN Returned(<<>>)
    ELSE LET eventCount == stored.eventCount.n
             count == IF Truthy(limit) THEN Min(limit.n, eventCount) ELSE eventCount
         IN  Returned(eventsDownTo(ledger, wallet[l], eventCount - 1,
                                   Max(0, eventCount - count)))

\* OnchainAuditLogger.getEventsForAuthority(connection, authorityWallet,
\* limit), on a ledger.  data.readBigUInt64LE(40) throws a RangeError on
\* data of fewer than 48 bytes.
getEventsForAuthority(ledger, authorityWallet, limit) ==
    LET accountInfo == ledger[deriveAuthorityPda(authorityWallet).address] IN
    IF accountInfo.null THEN Returned(<<>>)
    ELSE IF Len(accountInfo.data) < 40 + 8 THEN Thrown
    ELSE LET eventCount == NumberAt(accountInfo.data, 40, 8).n
             count == IF Truthy(limit) THEN Min(limit.n, eventCount) ELSE eventCount
         IN  Returned(eventsDownTo(ledger, authorityWallet, eventCount - 1,
                                   Max(0, eventCount - count)))

\* The events logged on a ledger so far, over all principals.
RECURSIVE EventsLogged(_, _)
EventsLogged(ledger, principals) ==
    IF principals = {} THEN 0
    ELSE LET k == CHOOSE p \in principals : TRUE
             stored == decodeAuthority(ledger[deriveAuthorityPda(k).address])
         IN  (IF stored.null THEN 0 ELSE stored.eventCount.n)
             + EventsLogged(ledger, principals \ {k})

\* What a call of a logger leaves besides the ledger: the cached Authority
\* address, the call and its outcome.
TrailCall(l, op, sent, result) ==
    /\ authorityPda' = [authorityPda EXCEPT ![l] = getAuthorityPda(l)]
    /\ lastOp' = [op |-> op, logger |-> l]
    /\ ret' = [op |-> op, logger |-> l, sent |-> sent, result |-> result]
    /\ UNCHANGED <<now, limitsVars, registryVars, firewallVars, auditVars, derived,
                   logged, wrapperVars, guardVars>>

\* initialize(), from the probe of the Authority address to the confirmed
\* transaction: what it sends, the ledger it leaves and how it ends.
initializeOutcome(ledger, l) ==
    IF ~ledger[getAuthorityPda(l).address].null
    THEN [sent |-> <<>>, ledger |-> ledger, threw |-> FALSE,
          result |-> "already_initialized"]
    ELSE LET ix == initializeInstruction(l)
             applied == ProgramApply(ledger, ix, wallet[l])
         IN  [sent |-> <<SentTransaction(ix, <<wallet[l]>>)>>,
              ledger |-> applied.ledger, threw |-> ~applied.ok,
              result |-> IF applied.ok THEN "signature" ELSE "throws"]

\* logger.initialize()
Trail_initialize(l) ==
    LET out == initializeOutcome(accounts, l) IN
    /\ accounts' = out.ledger
    /\ loggerInitialized' = [loggerInitialized EXCEPT ![l] = @ \/ ~out.threw]
    /\ TrailCall(l, "initialize", out.sent, out.result)

\* logger.logSecurityEvent(params): initialize() if this logger has not
\* initialized, the read of the Authority, and the log_event transaction.
Trail_logSecurityEvent(l, params) ==
    LET first == IF loggerInitialized[l]
                 THEN [sent |-> <<>>, ledger |-> accounts, threw |-> FALSE,
                       result |-> "none"]
                 ELSE initializeOutcome(accounts, l)
        stored == decodeAuthority(first.ledger[getAuthorityPda(l).address])
    IN
    /\ EventsLogged(accounts, TrailPrincipals) < MaxEvents
    /\ loggerInitialized' = [loggerInitialized EXCEPT ![l] = @ \/ ~first.threw]
    /\ IF first.threw \/ stored.null
       THEN /\ accounts' = first.ledger
            /\ TrailCall(l, "logSecurityEvent", first.sent, "throws")
       ELSE LET index == stored.eventCount.n
                ix == logEventInstruction(l, index, params)
                applied == ProgramApply(first.ledger, ix, wallet[l])
            IN  /\ accounts' = applied.ledger
                /\ TrailCall(l, "logSecurityEvent",
                             first.sent \o <<SentTransaction(ix, <<wallet[l]>>)>>,
                             IF applied.ok THEN "signature" ELSE "throws")

\* logger.closeEvent(eventIndex)
Trail_closeEvent(l, index) ==
    LET ix == closeEventInstruction(l, index)
        applied == ProgramApply(accounts, ix, wallet[l])
    IN  /\ accounts' = applied.ledger
        /\ UNCHANGED loggerInitialized
        /\ TrailCall(l, "closeEvent", <<SentTransaction(ix, <<wallet[l]>>)>>,
                     IF applied.ok THEN "signature" ELSE "throws")

\* logger.getEvents(limit)
Trail_getEvents(l, limit) ==
    /\ UNCHANGED <<accounts, loggerInitialized>>
    /\ authorityPda' = [authorityPda EXCEPT ![l] = getAuthorityPda(l)]
    /\ lastOp' = [op |-> "getEvents", logger |-> l]
    /\ ret' = [op |-> "getEvents", principal |-> wallet[l], limit |-> limit,
               result |-> getEvents(accounts, l, limit)]
    /\ UNCHANGED <<now, limitsVars, registryVars, firewallVars, auditVars, derived,
                   logged, wrapperVars, guardVars>>

\* OnchainAuditLogger.getEventsForAuthority(connection, authorityWallet, limit)
Trail_getEventsForAuthority(authorityWallet, limit) ==
    /\ UNCHANGED <<accounts, loggerInitialized, authorityPda>>
    /\ lastOp' = [op |-> "getEventsForAuthority", logger |-> 0]
    /\ ret' = [op |-> "getEventsForAuthority", principal |-> authorityWallet,
               limit |-> limit,
               result |-> getEventsForAuthority(accounts, authorityWallet, limit)]
    /\ UNCHANGED <<now, limitsVars, registryVars, firewallVars, auditVars, derived,
                   logged, wrapperVars, guardVars>>

\* The loggers that write to the ledger: one of each principal.
TrailLoggers == {1, 3}

\* The events the loggers of the model log.
TrailParams == {[type |-> 0, allowed |-> TRUE, details |-> <<97>>]}

\* An account at the Authority address of a principal that holds the
\* discriminator and the key only.
ShortAuthority(k) == AccountInfo(SubSeq(ProgramAuthorityAccount(k, 0, 0, 255), 1, 40))

(***************************************************************************)
(* Specifications                                                          *)
(***************************************************************************)

\* One SpendingLimits instance, called by one caller, under a running clock.
InitLimits ==
    /\ now = 0
    /\ LimitsInit
    /\ RegistryIdle
    /\ FirewallIdle
    /\ AuditIdle
    /\ PdaIdle
    /\ DigestIdle
    /\ WrapperIdle
    /\ GuardIdle
    /\ lastOp = [op |-> "new"]
    /\ ret = NoResult

NextLimits ==
    \/ \E a \in Amounts : Limits_check(a)
    \/ \E a \in Amounts : Limits_recordSpend(a)
    \/ Limits_resetDailySpend
    \/ Limits_getStatus
    \/ Tick

SpecLimits == InitLimits /\ [][NextLimits]_vars

\* One ProgramAllowlist instance.
InitRegistry ==
    /\ now = 0
    /\ LimitsIdle
    /\ FirewallIdle
    /\ AuditIdle
    /\ PdaIdle
    /\ DigestIdle
    /\ WrapperIdle
    /\ GuardIdle
    /\ \E allowedPrograms \in {NullAllowlist} \cup {SetAllowlist(ids) : ids \in SUBSET ProgramIds},
          blockedPrograms \in SUBSET ProgramIds,
          allowSystem \in BOOLEAN :
          RegistryInit(allowedPrograms, blockedPrograms, allowSystem)
    /\ lastOp = [op |-> "new"]
    /\ ret = NoResult

NextRegistry ==
    \/ \E id \in ProgramIds : Allowlist_check(id)
    \/ \E id \in ProgramIds : Allowlist_addToBlocklist(id)
    \/ \E id \in ProgramIds : Allowlist_addToAllowlist(id)
    \/ Allowlist_getStatus

SpecRegistry == InitRegistry /\ [][NextRegistry]_vars

\* One TransactionFirewall: one check at a time, suspended at its awaits,
\* while the firewall's other methods are called and the clock runs.
Init ==
    /\ now = MaxNow - 2
    /\ \E c \in FirewallLimitConfigs :
          /\ maxDaily = c.maxDailySpend
          /\ maxPerTx = c.maxPerTxSpend
    /\ dailySpend = 0
    /\ lastResetDate = getTodayDate
    /\ approved = NotApproved
    /\ seqUse = TRUE
    /\ \E allowedPrograms \in {NullAllowlist, SetAllowlist({SystemProgramId})} :
          RegistryInit(allowedPrograms, {}, TRUE)
    /\ \E payer \in BOOLEAN, simulation \in BOOLEAN : FirewallInit(payer, simulation)
    /\ AuditIdle
    /\ PdaIdle
    /\ DigestIdle
    /\ WrapperIdle
    /\ GuardIdle
    /\ lastOp = [op |-> "new"]
    /\ ret = NoResult

Next ==
    \/ \E t \in Transactions : Firewall_check(t)
    \/ Firewall_estimateSpendReturns
    \/ Firewall_getLatestBlockhashReturns
    \/ Firewall_simulateTransactionReturns
    \/ \E a \in SpendAmounts : Limits_recordSpend(a)
    \/ Limits_resetDailySpend
    \/ Firewall_getStatus
    \/ \E id \in RuntimeIds : Allowlist_addToBlocklist(id)
    \/ \E id \in RuntimeIds : Allowlist_addToAllowlist(id)
    \/ Tick

Spec == Init /\ [][Next]_vars

\* One OnchainAuditLogger and the ledger accounts of its principal: the
\* logger's calls, up to two in flight together, suspended at their awaits.
InitAudit ==
    /\ now = 0
    /\ LimitsIdle
    /\ RegistryIdle
    /\ FirewallIdle
    /\ AuditInit
    /\ PdaIdle
    /\ DigestIdle
    /\ WrapperIdle
    /\ GuardIdle
    /\ lastOp = [op |-> "new"]
    /\ ret = NoResult

NextAudit ==
    \/ \E c \in Slots : Audit_initialize(c)
    \/ \E c \in Slots : Audit_logSecurityEvent(c)
    \/ \E c \in Slots : Audit_initializeProbed(c)
    \/ \E c \in Slots : Audit_initializeSent(c)
    \/ \E c \in Slots : Audit_getAuthorityReturns(c)
    \/ \E c \in Slots : Audit_logEventSent(c)
    \/ \E c \in Slots, index \in EventIndexes : Audit_closeEvent(c, index)
    \/ \E c \in Slots : Audit_closeEventSent(c)

SpecAudit == InitAudit /\ [][NextAudit]_vars

\* The address derivations of three loggers and of the static accessor.
InitAddresses ==
    /\ now = 0
    /\ LimitsIdle
    /\ RegistryIdle
    /\ FirewallIdle
    /\ AuditIdle
    /\ PdaInit
    /\ DigestIdle
    /\ WrapperIdle
    /\ GuardIdle
    /\ lastOp = [op |-> "new"]
    /\ ret = NoResult

NextAddresses ==
    \/ \E l \in Loggers : Pda_getAuthorityPda(l)
    \/ \E l \in Loggers, i \in DerivedIndexes : Pda_getEventPda(l, i)
    \/ \E k \in PublicKeys : Pda_staticAuthorityPda(k)
    \/ \E k \in PublicKeys, i \in DerivedIndexes : Pda_staticEventPda(k, i)

SpecAddresses == InitAddresses /\ [][NextAddresses]_vars

\* Events are logged and read back, and details are verified against them.
InitDigest ==
    /\ now = 0
    /\ LimitsIdle
    /\ RegistryIdle
    /\ FirewallIdle
    /\ AuditIdle
    /\ PdaIdle
    /\ DigestInit
    /\ WrapperIdle
    /\ GuardIdle
    /\ lastOp = [op |-> "new"]
    /\ ret = NoResult

NextDigest ==
    \/ \E params \in LogEventParamsSet : Digest_logSecurityEvent(params)
    \/ \E details \in DetailsStrings : Digest_verifyEventDetails(details)

SpecDigest == InitDigest /\ [][NextDigest]_vars

\* One GuardedSolanaAgent over one guard: its calls, up to two in flight
\* together, suspended at their awaits, under a running clock.
InitWrapper ==
    /\ now = MaxNow - 2
    /\ maxDaily = WrapperLimitConfig.maxDailySpend
    /\ maxPerTx = WrapperLimitConfig.maxPerTxSpend
    /\ dailySpend = 0
    /\ lastResetDate = getTodayDate
    /\ approved = NotApproved
    /\ seqUse = TRUE
    /\ RegistryIdle
    /\ FirewallInit(FALSE, TRUE)
    /\ AuditIdle
    /\ PdaIdle
    /\ DigestIdle
    /\ \E dry \in BOOLEAN, onBlockedSet \in BOOLEAN : WrapperInit(dry, onBlockedSet)
    /\ GuardIdle
    /\ lastOp = [op |-> "new"]
    /\ ret = NoResult

NextWrapper ==
    \/ \E c \in WSlots, lamports \in WrapperAmounts : Wrapper_transfer(c, "valid", lamports)
    \/ \E c \in WSlots : Wrapper_transfer(c, "invalid", 1)
    \/ \E c \in WSlots, lamports \in WrapperAmounts : Wrapper_stake(c, lamports)
    \/ \E c \in WSlots, check \in CustomChecks \cup {NoCheck} : Wrapper_execute(c, check)
    \/ \E c \in WSlots : Wrapper_customCheckReturns(c)
    \/ \E c \in WSlots : Wrapper_fnReturns(c)
    \/ \E c \in WSlots : Wrapper_kitReturns(c)
    \/ \E c \in WSlots : Wrapper_auditLogged(c)
    \/ Tick

SpecWrapper == InitWrapper /\ [][NextWrapper]_vars

\* One AgentGuard: its firewall is built without a payer key, and its
\* checkTransaction calls run one at a time, each through the steps of
\* firewall.check; between calls the registry changes.
InitGuard ==
    /\ now = 0
    /\ maxDaily = WrapperLimitConfig.maxDailySpend
    /\ maxPerTx = WrapperLimitConfig.maxPerTxSpend
    /\ dailySpend = 0
    /\ lastResetDate = getTodayDate
    /\ approved = NotApproved
    /\ seqUse = TRUE
    /\ \E allowedPrograms \in {NullAllowlist, SetAllowlist({SystemProgramId})} :
          RegistryInit(allowedPrograms, {}, TRUE)
    /\ \E simulation \in BOOLEAN : FirewallInit(FALSE, simulation)
    /\ AuditIdle
    /\ PdaIdle
    /\ DigestIdle
    /\ WrapperIdle
    /\ GuardInit
    /\ lastOp = [op |-> "new"]
    /\ ret = NoResult

NextGuard ==
    \/ \E t \in Transactions, action \in GuardActions : Guard_checkTransaction(t, action)
    \/ Firewall_getLatestBlockhashReturns
    \/ Firewall_simulateTransactionReturns
    \/ Guard_firewallReturned
    \/ Guard_auditLogged
    \/ \E id \in RuntimeIds : gpc = "idle" /\ Allowlist_addToBlocklist(id)

SpecGuard == InitGuard /\ [][NextGuard]_vars

\* The simulator's reading of single instructions, legacy and compiled.
InitTransfer ==
    /\ now = 0
    /\ LimitsIdle
    /\ RegistryIdle
    /\ FirewallIdle
    /\ AuditIdle
    /\ PdaIdle
    /\ DigestIdle
    /\ WrapperIdle
    /\ GuardIdle
    /\ lastOp = [op |-> "new"]
    /\ ret = NoResult

NextTransfer ==
    \/ \E id \in {SystemProgramId, <<"T", "k">>}, data \in InstructionPayloads :
          Simulator_extractSpendFromLegacyInstruction([programId |-> id, data |-> data])
    \/ \E i \in 0..2, data \in InstructionPayloads :
          Simulator_extractSpendFromCompiledInstruction([programIdIndex |-> i, data |-> data])

SpecTransfer == InitTransfer /\ [][NextTransfer]_vars

\* The readers of the trail, given what the ledger stores at an address.
InitDecode == InitTransfer

NextDecode ==
    \/ \E accountInfo \in StoredAccounts : Decode_getAuthority(accountInfo)
    \/ \E accountInfo \in StoredAccounts : Decode_getEvent(accountInfo)

SpecDecode == InitDecode /\ [][NextDecode]_vars

\* Two loggers of two principals and any reader, on one ledger; the
\* ledger starts empty, or with an account too short for an Authority at
\* the Authority address of one principal.
InitTrail ==
    /\ now = 0
    /\ LimitsIdle
    /\ RegistryIdle
    /\ FirewallIdle
    /\ AuditIdle
    /\ authorityPda = [l \in Loggers |-> NullPda]
    /\ derived = {}
    /\ loggerInitialized = [l \in Loggers |-> FALSE]
    /\ \/ accounts = EmptyLedger
       \/ \E k \in TrailPrincipals :
              accounts = [EmptyLedger EXCEPT
                             ![deriveAuthorityPda(k).address] = ShortAuthority(k)]
    /\ DigestIdle
    /\ WrapperIdle
    /\ GuardIdle
    /\ lastOp = [op |-> "new"]
    /\ ret = NoResult

NextTrail ==
    \/ \E l \in TrailLoggers : Trail_initialize(l)
    \/ \E l \in TrailLoggers, params \in TrailParams : Trail_logSecurityEvent(l, params)
    \/ \E l \in TrailLoggers, index \in TrailIndexes : Trail_closeEvent(l, index)
    \/ \E l \in TrailLoggers, limit \in Limits : Trail_getEvents(l, limit)
    \/ \E authorityWallet \in TrailPrincipals, limit \in Limits :
           Trail_getEventsForAuthority(authorityWallet, limit)

SpecTrail == InitTrail /\ [][NextTrail]_vars

(***************************************************************************)
(* Claims about SpendingLimits, checked under SpecLimits.                  *)
(***************************************************************************)

\* The step is a call of the operation `name` that changed the state.
OpStep(name) == now' = now /\ vars' # vars /\ lastOp'.op = name

\* C1: every check of an amount above maxPerTx is denied with the reason
\* that names the per-tx limit, whatever the daily budget left.
C1_PerTxAlwaysDenied ==
    (ret.op = "check" /\ ret.amount > maxPerTx)
        => (~ret.allowed /\ ret.reason.text = "exceeds per-tx limit")

\* C1 happens: an amount above maxPerTx that the daily budget would cover
\* has been checked.
C1_Witness ==
    /\ ret.op = "check"
    /\ ret.amount > maxPerTx
    /\ ret.currentDailySpend + ret.amount <= maxDaily
    /\ ~ret.allowed

\* C2 as stated: with S <= maxDaily recorded on the current day,
\* check(maxDaily - S) is allowed and check(maxDaily - S + 1) is denied,
\* for every configuration.
C2_Original ==
    (ret.op = "check" /\ ret.currentDailySpend <= maxDaily)
        => /\ (ret.amount = maxDaily - ret.currentDailySpend) => ret.allowed
           /\ (ret.amount = maxDaily - ret.currentDailySpend + 1) => ~ret.allowed

\* C2 as amended: with S <= maxDaily recorded on the current day,
\* check(maxDaily - S) is allowed exactly when maxDaily - S <= maxPerTx
\* (above maxPerTx it is denied by the per-tx limit), and
\* check(maxDaily - S + 1) is denied.
C2_ExactBudget ==
    (ret.op = "check" /\ ret.currentDailySpend <= maxDaily)
        => /\ (ret.amount = maxDaily - ret.currentDailySpend)
                 => (ret.allowed <=> ret.amount <= maxPerTx)
           /\ (ret.amount = maxDaily - ret.currentDailySpend + 1) => ~ret.allowed

\* C2 happens: after spend was recorded, the exact remaining budget was
\* checked and allowed.
C2_Witness ==
    /\ ret.op = "check"
    /\ ret.currentDailySpend > 0
    /\ ret.amount = maxDaily - ret.currentDailySpend
    /\ ret.amount > 0
    /\ ret.allowed

\* The ledger of the scenario: maxPerTx = 100_000_000, maxDaily = 1_000_000_000.
ScenarioLedger == maxDaily = STRICT_MAX_DAILY /\ maxPerTx = STRICT_MAX_PER_TX

\* C3 as stated: on the scenario ledger check(50_000_000) at dailySpend = 0
\* is allowed with remainingDaily = 1_000_000_000; with 50_000_000 recorded
\* check(950_000_001) is denied with the daily-limit reason;
\* check(150_000_000) is denied with the per-tx reason.
C3_Original ==
    (ScenarioLedger /\ ret.op = "check")
        => /\ (ret.currentDailySpend = 0 /\ ret.amount = 50000000)
                 => (ret.allowed /\ ret.remainingDaily = 1000000000)
           /\ (ret.currentDailySpend = 50000000 /\ ret.amount = 950000001)
                 => (~ret.allowed /\ ret.reason.text = "would exceed daily limit")
           /\ (ret.amount = 150000000)
                 => (~ret.allowed /\ ret.reason.text = "exceeds per-tx limit")

\* C3 as amended: on the scenario ledger check(50_000_000) at dailySpend = 0
\* is allowed with remainingDaily = 950_000_000 (the budget left after the
\* checked amount); with 50_000_000 recorded check(950_000_001) is denied
\* with the per-tx reason (950_000_001 > maxPerTx is tested first);
\* check(150_000_000) is denied with the per-tx reason.
C3_Scenario ==
    (ScenarioLedger /\ ret.op = "check")
        => /\ (ret.currentDailySpend = 0 /\ ret.amount = 50000000)
                 => (ret.allowed /\ ret.remainingDaily = 950000000)
           /\ (ret.currentDailySpend = 50000000 /\ ret.amount = 950000001)
                 => (~ret.allowed /\ ret.reason.text = "exceeds per-tx limit")
           /\ (ret.amount = 150000000)
                 => (~ret.allowed /\ ret.reason.text = "exceeds per-tx limit")

\* C3 happens: 50_000_000 is recorded on the scenario ledger and
\* check(950_000_001) has returned.
C3_Witness ==
    /\ ScenarioLedger
    /\ ret.op = "check"
    /\ dailySpend = 50000000
    /\ ret.currentDailySpend = 50000000
    /\ ret.amount = 950000001
    /\ ~ret.allowed

C5_Original == 0 <= dailySpend /\ dailySpend <= maxDaily

\* C5 as amended: 0 <= dailySpend <= maxDaily as long as every recordSpend(a)
\* so far recorded the amount a of the last check, which returned allowed,
\* with no other recordSpend in between; recordSpend itself validates
\* nothing.
C5_WithinCapWhenChecked == seqUse => (0 <= dailySpend /\ dailySpend <= maxDaily)

\* C5 happens: checked spends were recorded up to the full daily cap.
C5_Witness ==
    /\ seqUse
    /\ lastOp.op = "recordSpend"
    /\ maxDaily > 0
    /\ dailySpend = maxDaily

\* C6 as stated: a check call changes neither dailySpend nor lastResetDate,
\* and dailySpend changes only in recordSpend and resetDailySpend.
C6_Original ==
    [][ /\ OpStep("check")
            => (dailySpend' = dailySpend /\ lastResetDate' = lastResetDate)
        /\ dailySpend' # dailySpend
            => (OpStep("recordSpend") \/ OpStep("resetDailySpend")) ]_vars

\* C6 as amended: a check call on the date of lastResetDate changes neither
\* dailySpend nor lastResetDate; on another date it sets dailySpend to 0 and
\* lastResetDate to the date.  dailySpend changes only in recordSpend and
\* resetDailySpend and in that rollover of check and getStatus.
C6_CheckReadOnlyWithinDay ==
    [][ /\ OpStep("check")
            => IF getTodayDate = lastResetDate
               THEN dailySpend' = dailySpend /\ lastResetDate' = lastResetDate
               ELSE dailySpend' = 0 /\ lastResetDate' = getTodayDate
        /\ dailySpend' # dailySpend
            => \/ OpStep("recordSpend")
               \/ OpStep("resetDailySpend")
               \/ /\ OpStep("check") \/ OpStep("getStatus")
                  /\ getTodayDate # lastResetDate
                  /\ dailySpend' = 0 ]_vars

\* C6 happens: a check has returned on a ledger with recorded spend, which
\* is still there.
C6_Witness ==
    /\ lastOp.op = "check"
    /\ ret.currentDailySpend > 0
    /\ dailySpend = ret.currentDailySpend
    /\ ret.allowed

(***************************************************************************)
(* Claims about ProgramAllowlist, checked under SpecRegistry.              *)
(***************************************************************************)

\* The registry's membership tests: an id is looked up lower-cased.
InBlocklist(id) == toLowerCase(id) \in blocklist
InAllowlist(id) == ~allowlist.null /\ toLowerCase(id) \in allowlist.ids
SystemSafe(id) == allowSystemPrograms /\ toLowerCase(id) \in systemPrograms

\* C7: every id that was given to the blocklist, in the configuration or at
\* runtime, is denied with status 'blocked', whether or not it is also in
\* the allowlist or system-safe.
C7_BlocklistOverrides ==
    /\ \A id \in blockedIds :
          LET r == Allowlist_checkResult(id) IN ~r.allowed /\ r.status = "blocked"
    /\ (ret.op = "allowlist.check" /\ ret.result.programId \in blockedIds)
          => (~ret.result.allowed /\ ret.result.status = "blocked")

\* C7 happens: addToBlocklist has just been called with an id that is
\* system-safe and was in the allowlist already, and check denies it as
\* 'blocked'.
C7_Witness ==
    /\ lastOp.op = "addToBlocklist"
    /\ lastOp.programId \in allowedIds
    /\ lastOp.programId \in SAFE_SYSTEM_PROGRAMS
    /\ allowSystemPrograms
    /\ InAllowlist(lastOp.programId)
    /\ Allowlist_checkResult(lastOp.programId).status = "blocked"

\* C8 as stated: with an allowlist configured every id that is neither in
\* the allowlist nor system-safe is denied with status 'not_in_allowlist';
\* with no allowlist configured every id not in the blocklist is allowed.
C8_Original ==
    \A id \in ProgramIds :
        LET r == Allowlist_checkResult(id) IN
        /\ (~allowlist.null /\ ~InAllowlist(id) /\ ~SystemSafe(id))
              => (~r.allowed /\ r.status = "not_in_allowlist")
        /\ (allowlist.null /\ ~InBlocklist(id)) => r.allowed

\* C8 as amended: with an allowlist configured every id that is neither in
\* the allowlist nor system-safe is denied, with status 'blocked' when it is
\* in the blocklist and 'not_in_allowlist' otherwise; with no allowlist
\* configured every id not in the blocklist is allowed.
C8_ResultByMode ==
    /\ \A id \in ProgramIds :
          LET r == Allowlist_checkResult(id) IN
          /\ (~allowlist.null /\ ~InAllowlist(id) /\ ~SystemSafe(id))
                => /\ ~r.allowed
                   /\ r.status = IF InBlocklist(id) THEN "blocked" ELSE "not_in_allowlist"
          /\ (allowlist.null /\ ~InBlocklist(id)) => r.allowed
    /\ ret.op = "allowlist.check"
          => ret.result = Allowlist_checkResult(ret.result.programId)

\* C8 happens: in allowlist mode, with a non-empty allowlist, check has
\* denied an id as 'not_in_allowlist'.
C8_Witness ==
    /\ ret.op = "allowlist.check"
    /\ ~allowlist.null
    /\ allowlist.ids # {}
    /\ ~ret.result.allowed
    /\ ret.result.status = "not_in_allowlist"

\* The step is a call of the registry operation `name` with the id `id`.
RegistryStep(name, id) ==
    /\ <<lastOp, ret, registryVars>>' # <<lastOp, ret, registryVars>>
    /\ lastOp' = [op |-> name, programId |-> id]

\* C9: addToAllowlist(id) in blocklist-only mode returns false and changes
\* neither list; in allowlist mode it returns true, and from then on
\* check(id) is allowed unless id is in the blocklist; addToBlocklist(id)
\* puts id in the blocklist in both modes.
C9_RuntimeMutation ==
    /\ [][ \A id \in ProgramIds :
            /\ RegistryStep("addToAllowlist", id)
                  => IF allowlist.null
                     THEN /\ ret'.value = FALSE
                          /\ allowlist' = allowlist
                          /\ blocklist' = blocklist
                     ELSE /\ ret'.value = TRUE
                          /\ blocklist' = blocklist
                          /\ InAllowlist(id)'
                          /\ Allowlist_checkResult(id)'.allowed \/ InBlocklist(id)'
            /\ RegistryStep("addToBlocklist", id)
                  => /\ InBlocklist(id)'
                     /\ allowlist' = allowlist
                     /\ Allowlist_checkResult(id)'.status = "blocked" ]_vars
    /\ [](\A id \in allowedIds :
            Allowlist_checkResult(id).allowed \/ InBlocklist(id))

\* C9 happens: addToAllowlist has just returned true, in allowlist mode, for
\* an id that is not system-safe, and check allows it by its allowlist entry.
C9_Witness ==
    /\ lastOp.op = "addToAllowlist"
    /\ ret.value = TRUE
    /\ ~SystemSafe(lastOp.programId)
    /\ Allowlist_checkResult(lastOp.programId).allowed
    /\ Allowlist_checkResult(lastOp.programId).status = "allowed"

(***************************************************************************)
(* Claims about TransactionFirewall, checked under Spec.                   *)
(***************************************************************************)

\* The stage of check a call belongs to: 1 Programs, 2 Spend, 3 Simulation.
StageOf(call) ==
    IF call = "allowlist.checkAll" THEN 1
    ELSE IF call \in {"simulator.estimateSpend", "rpc.getFeeForMessage",
                       "rpc.getFeeForMessage threw", "rpc.getFeeForMessage returned null",
                       "rpc.getFeeForMessage returned a fee", "limits.check"} THEN 2
    ELSE 3

RpcCalls == {"rpc.getFeeForMessage", "rpc.getLatestBlockhash", "rpc.simulateTransaction"}

Calls(tr) == {tr[i] : i \in DOMAIN tr}

\* The calls of one check, so far: the program stage first and once, no call
\* of an earlier stage after a call of a later one, and the simulation stage
\* entered only after the spend stage, if it was entered, got its verdict.
StagesInOrder(tr) ==
    /\ tr # <<>> => tr[1] = "allowlist.checkAll"
    /\ \A i \in DOMAIN tr : \A j \in DOMAIN tr :
          i < j => /\ StageOf(tr[i]) <= StageOf(tr[j])
                   /\ tr[j] # "allowlist.checkAll"
    /\ \A j \in DOMAIN tr :
          (StageOf(tr[j]) = 3 /\ "simulator.estimateSpend" \in Calls(tr))
              => \E i \in 1..(j - 1) : tr[i] = "limits.check"
    /\ \A j \in DOMAIN tr :
          tr[j] = "limits.check"
              => \E i \in 1..(j - 1) : tr[i] = "simulator.estimateSpend"

\* The last operation was a check that returned.
CheckReturned == lastOp.op = "firewall.check" /\ ret.op = "firewall.check"

ProgramCheckFailed(result) == FindBlocked(result.programsChecked, 1) # 0

SpendCheckFailed(result) ==
    /\ ~result.allowed
    /\ result.reason.text \in {"exceeds per-tx limit", "would exceed daily limit"}

\* C10: TransactionFirewall.check runs its stages in the order Programs,
\* Spend, Simulation, each stage starting only after the previous one has
\* completed, and short-circuits: a check that returns with a failed program
\* check has called neither estimateSpend nor simulate and has made no RPC
\* call; a check that returns with a failed spend check has not called
\* simulate.
C10_StagesInOrderAndShortCircuit ==
    /\ StagesInOrder(trace)
    /\ (pc = "estimateSpend") =>
          (StageOf(trace[Len(trace)]) = 2 /\ "limits.check" \notin Calls(trace))
    /\ (pc \in {"getLatestBlockhash", "simulateTransaction"}) =>
          StageOf(trace[Len(trace)]) = 3
    /\ CheckReturned =>
          /\ StagesInOrder(ret.calls)
          /\ ProgramCheckFailed(ret.result) =>
                /\ ~ret.result.allowed
                /\ ret.calls = <<"allowlist.checkAll">>
          /\ SpendCheckFailed(ret.result) =>
                /\ ret.calls[Len(ret.calls)] = "limits.check"
                /\ \A i \in DOMAIN ret.calls : StageOf(ret.calls[i]) # 3

\* A firewall with a payer key and simulation required has returned from a
\* check of a transaction with a refused program: the stages that would have
\* followed were not entered.
C10_Witness ==
    /\ CheckReturned
    /\ payerPublicKey
    /\ requireSimulation
    /\ ProgramCheckFailed(ret.result)
    /\ Len(ret.result.programsChecked) > 1
    /\ Calls(ret.calls) \cap RpcCalls = {}


\* A step of the running check that began at the await `at` ("idle": the call).
CheckStep(at) == pc = at /\ now' = now /\ lastOp'.op = "firewall.check"

\* The check has returned in this step.
Returns == pc' = "idle" /\ ret'.op = "firewall.check"

\* Every program id of the transaction passes the registry.
ProgramsPass(t) ==
    \A i \in DOMAIN extractProgramIds(t) :
        Allowlist_checkResult(extractProgramIds(t)[i]).allowed

\* The estimate the spend stage has just worked with.
EstimateOfStep == IF pc' = "idle" THEN ret'.result.estimatedSpend ELSE estimatedSpend'

\* C11: the verdict of TransactionFirewall.check.  The result has allowed=true
\* if and only if every extracted program id passes the registry, the spend
\* check passes or is skipped, and simulation succeeds or is not required:
\* stage by stage, check returns a deny exactly when the stage fails, goes on
\* to the next stage when it passes, and returns allowed=true when no stage is
\* left.  Every result with allowed=false has a defined reason and carries
\* programsChecked for the ids of the transaction, and estimatedSpend exactly
\* when the spend stage was reached.
C11_Verdict ==
    /\ [][ /\ \A t \in Transactions :
                (CheckStep("idle") /\ (IF pc' = "idle" THEN ret'.tx ELSE tx') = t)
                    => /\ (Returns /\ ~ret'.result.allowed) <=> ~ProgramsPass(t)
                       /\ (Returns /\ ret'.result.allowed)
                             <=> (ProgramsPass(t) /\ ~payerPublicKey /\ ~requireSimulation)
                       /\ Returns => ret'.result.programsChecked = checkAll(extractProgramIds(t))
           /\ CheckStep("estimateSpend")
                 => /\ EstimateOfStep.has
                    /\ (Returns /\ ~ret'.result.allowed)
                          <=> ~checkResult(maybeResetDaily.dailySpend,
                                           EstimateOfStep.value).allowed
                    /\ (Returns /\ ret'.result.allowed)
                          <=> (checkResult(maybeResetDaily.dailySpend,
                                           EstimateOfStep.value).allowed
                               /\ ~requireSimulation)
                    /\ Returns => ret'.result.programsChecked = programChecks
           /\ (CheckStep("getLatestBlockhash") \/ CheckStep("simulateTransaction"))
                 => (Returns =>
                       /\ ret'.result.simulationResult.has
                       /\ ret'.result.allowed <=> ret'.result.simulationResult.success
                       /\ ret'.result.programsChecked = programChecks
                       /\ ret'.result.estimatedSpend = estimatedSpend)
         ]_vars
    /\ [](CheckReturned =>
            /\ ret.result.allowed =>
                  /\ ~ProgramCheckFailed(ret.result)
                  /\ ret.result.estimatedSpend.has <=> payerPublicKey
                  /\ ret.result.simulationResult.has <=> requireSimulation
                  /\ ret.result.simulationResult.has => ret.result.simulationResult.success
            /\ ~ret.result.allowed =>
                  /\ ret.result.reason.text # NoReason.text
                  /\ Len(ret.result.programsChecked) = Len(extractProgramIds(ret.tx))
                  /\ \A i \in DOMAIN ret.result.programsChecked :
                        ret.result.programsChecked[i].programId = extractProgramIds(ret.tx)[i]
                  /\ ret.result.estimatedSpend.has <=> "limits.check" \in Calls(ret.calls))

\* A check with a payer key has passed the program and the spend stage and
\* has returned a deny from a failed simulation, with the program checks and
\* the spend estimate attached.
C11_Witness ==
    /\ CheckReturned
    /\ ~ret.result.allowed
    /\ ret.result.reason.text = "Simulation failed"
    /\ ret.result.estimatedSpend.has
    /\ Len(ret.result.programsChecked) > 1
    /\ ~ProgramCheckFailed(ret.result)


NoPayerWarning == "No payer public key provided - spending limits not enforced"

\* C12: a firewall with no payer public key never consults the spend ledger.
\* No step of check reads or rolls over the ledger, the spend stage is skipped
\* for every transaction whatever it transfers (no estimateSpend, no
\* limits.check, no deny for a spend limit), estimatedSpend stays undefined,
\* and every check that gets past the program stage carries the warning
\* 'spending limits not enforced'.
C12_NoPayerSkipsSpend ==
    /\ [][(~payerPublicKey /\ now' = now /\ lastOp'.op = "firewall.check")
             => UNCHANGED limitsVars]_vars
    /\ [](~payerPublicKey =>
            /\ pc # "estimateSpend"
            /\ estimatedSpend = Undefined
            /\ \A i \in DOMAIN trace : StageOf(trace[i]) # 2
            /\ pc # "idle" => NoPayerWarning \in Calls(warnings)
            /\ CheckReturned =>
                  /\ ret.result.estimatedSpend = Undefined
                  /\ ~SpendCheckFailed(ret.result)
                  /\ \A i \in DOMAIN ret.calls : StageOf(ret.calls[i]) # 2
                  /\ ~ProgramCheckFailed(ret.result) =>
                        /\ ret.result.warnings.has
                        /\ NoPayerWarning \in Calls(ret.result.warnings.value))

\* A firewall with no payer key has allowed a transaction whose fee and
\* transfers come to more than the per-transaction cap, with the warning.
C12_Witness ==
    /\ CheckReturned
    /\ ~payerPublicKey
    /\ ret.result.allowed
    /\ DEFAULT_FEE + SumSpend(ret.tx.instructions) > maxPerTx
    /\ NoPayerWarning \in Calls(ret.result.warnings.value)
    /\ ret.result.estimatedSpend = Undefined


\* C13: an AgentGuard built with maxPerTxSpend and maxDailySpend enforces both
\* limits in checkTransaction: every transaction whose recognized
\* native-transfer total exceeds maxPerTxSpend, or would push the day's spend
\* over maxDailySpend, gets allowed=false.  (Not so: see C13_Bypass.)
C13_Original ==
    (/\ BuiltByAgentGuard
     /\ CheckReturned
     /\ \/ SumSpend(ret.tx.instructions) > maxPerTx
        \/ /\ ret.calls = <<"allowlist.checkAll">>
           /\ maybeResetDaily.dailySpend + SumSpend(ret.tx.instructions) > maxDaily)
        => ~checkTransaction(ret.result).allowed

\* What the code does instead: the firewall of an AgentGuard has no payer
\* key, so no result of checkTransaction is a deny for a spend limit and none
\* carries a spend estimate.
C13_Bypass ==
    (BuiltByAgentGuard /\ CheckReturned)
        => /\ ~payerPublicKey
           /\ ~SpendCheckFailed(ret.result)
           /\ checkTransaction(ret.result).firewall.estimatedSpend = Undefined

\* checkTransaction of an AgentGuard has allowed a transaction whose
\* recognized transfers alone exceed maxPerTxSpend.
C13_Witness ==
    /\ BuiltByAgentGuard
    /\ CheckReturned
    /\ SumSpend(ret.tx.instructions) > maxPerTx
    /\ checkTransaction(ret.result).allowed


Last(tr) == tr[Len(tr)]

\* The simulation of the check that returned ended in a failure: the dry run
\* reported an error, or the last call allowed threw, or no blockhash came.
SimulationFailed(tr) ==
    /\ tr # <<>>
    /\ Last(tr) \in {"rpc.simulateTransaction returned err",
                     "rpc.simulateTransaction threw",
                     "rpc.getLatestBlockhash threw"}

\* C14: a simulation failure is a deny, never an exception.  When simulation
\* is required and the dry run reports an error, or every RPC attempt fails
\* at transport level, simulate returns success=false with the error text and
\* check returns allowed=false with a reason that holds that error text; the
\* simulation stage of a check ends in no other way than by check returning.
C14_SimulationFailureDenies ==
    /\ [][((CheckStep("getLatestBlockhash") \/ CheckStep("simulateTransaction"))
              /\ pc' = "idle") => Returns]_vars
    /\ [](CheckReturned /\ SimulationFailed(ret.calls) =>
            /\ requireSimulation
            /\ ret.result.simulationResult.has
            /\ ~ret.result.simulationResult.success
            /\ ret.result.simulationResult.error # "undefined"
            /\ ~ret.result.allowed
            /\ ret.result.reason.text = "Simulation failed"
            /\ ret.result.reason.error = ret.result.simulationResult.error)

\* A check has returned a deny after every simulateTransaction attempt failed
\* at transport level.
C14_Witness ==
    /\ CheckReturned
    /\ Last(ret.calls) = "rpc.simulateTransaction threw"
    /\ ~ret.result.allowed
    /\ ret.result.reason.error = "transport error"


\* The number of simulateTransaction calls in a log of calls.
Attempts(tr) == Cardinality({i \in DOMAIN tr : tr[i] = "rpc.simulateTransaction"})

\* The simulateTransaction calls in a log of calls are those of one
\* simulateWithRetry: at most maxRetries of them, a first one and then one
\* after each throw only, and none after a response.
RetryDiscipline(tr) ==
    /\ Attempts(tr) <= maxRetries
    /\ \A i \in DOMAIN tr :
          /\ (tr[i] = "rpc.simulateTransaction" /\ i > 1)
                => tr[i - 1] \in {"simulate", "rpc.getLatestBlockhash returned",
                                  "rpc.simulateTransaction threw"}
          /\ (tr[i] = "rpc.simulateTransaction" /\ i > 1
                /\ tr[i - 1] = "rpc.simulateTransaction threw") => Attempts(SubSeq(tr, 1, i - 1)) >= 1
          /\ tr[i] \in {"rpc.simulateTransaction returned",
                        "rpc.simulateTransaction returned err"} => i = Len(tr)
          /\ (tr[i] = "rpc.simulateTransaction threw" /\ i < Len(tr))
                => tr[i + 1] = "rpc.simulateTransaction"

\* C15: simulateWithRetry terminates after a bounded number of attempts.  It
\* makes the remote call at most maxRetries times in total, stops at the
\* first attempt that returns a response (a response that reports an error
\* included), retries only after a thrown transport error, and after
\* maxRetries consecutive failures rethrows the last error, which simulate
\* reports.
C15_BoundedRetry ==
    /\ RetryDiscipline(trace)
    /\ pc = "simulateTransaction" =>
          /\ attempt < maxRetries
          /\ Attempts(trace) = attempt + 1
          /\ Last(trace) = "rpc.simulateTransaction"
    /\ CheckReturned =>
          /\ RetryDiscipline(ret.calls)
          /\ Last(ret.calls) = "rpc.simulateTransaction threw" =>
                /\ Attempts(ret.calls) = maxRetries
                /\ ret.result.simulationResult.error = "transport error"

\* A check has returned after maxRetries simulateTransaction calls that all
\* threw.
C15_Witness ==
    /\ CheckReturned
    /\ Attempts(ret.calls) = maxRetries
    /\ Cardinality({i \in DOMAIN ret.calls :
                       ret.calls[i] = "rpc.simulateTransaction threw"}) = maxRetries
    /\ ~ret.result.simulationResult.success


\* The decision a step of check comes to: a deny, an allow, or going on.
Decision(n) ==
    IF n.pc # "idle" THEN "continue"
    ELSE IF n.ret.result.allowed THEN "allow" ELSE "deny"

\* C16: warnings never change a decision.  For every simulation response,
\* simulate's success equals 'the response has no err' whatever its log lines
\* are, and check decides the same with and without the warnings of spend
\* estimation and of log analysis: two fee lookups with the same estimate but
\* different warnings get the same decision, and the end of the simulation
\* decides the same when the warnings collected so far and those of the logs
\* are taken away.
C16_WarningsDoNotDecide ==
    /\ pc = "simulateTransaction" =>
          \A o \in SimOutcomes :
              o.kind = "response" =>
                 /\ simulateResponse(o).success = ~o.err
                 /\ Decision(LeaveSimulation(tx, programChecks, estimatedSpend, warnings,
                                             trace, simulateResponse(o)))
                      = Decision(LeaveSimulation(tx, programChecks, estimatedSpend, <<>>,
                                                 trace,
                                                 [simulateResponse(o) EXCEPT !.warnings = <<>>]))
    /\ pc = "estimateSpend" =>
          \A f1 \in FeeOutcomes(tx) : \A f2 \in FeeOutcomes(tx) :
              estimateSpend(tx, f1).estimatedSpend = estimateSpend(tx, f2).estimatedSpend
                 => Decision(checkSpend(f1)) = Decision(checkSpend(f2))
    /\ (CheckReturned /\ ret.result.simulationResult.has
           /\ ret.result.simulationResult.success) => ret.result.allowed

\* A check has allowed a transaction although the logs of its simulation gave
\* rise to a warning.
C16_Witness ==
    /\ CheckReturned
    /\ ret.result.allowed
    /\ ret.result.warnings.has
    /\ "Transaction may fail due to insufficient funds" \in Calls(ret.result.warnings.value)
    /\ Last(ret.calls) = "rpc.simulateTransaction returned"


\* The spend estimate `est` of transaction t is the fee the lookup gave, or the
\* default fee, plus the recognized transfers of t.
EstimateIsFeePlusTransfers(tr, t, est) ==
    "limits.check" \in Calls(tr) =>
        /\ est.has
        /\ "rpc.getFeeForMessage threw" \in Calls(tr)
              => est.value = DEFAULT_FEE + SumSpend(t.instructions)
        /\ "rpc.getFeeForMessage returned null" \in Calls(tr)
              => est.value = DEFAULT_FEE + SumSpend(t.instructions)
        /\ "rpc.getFeeForMessage" \notin Calls(tr)
              => est.value = DEFAULT_FEE + SumSpend(t.instructions)
        /\ "rpc.getFeeForMessage returned a fee" \in Calls(tr)
              => est.value - SumSpend(t.instructions) \in {DEFAULT_FEE, 2 * DEFAULT_FEE}

\* C17: estimateSpend returns estimatedSpend = fee + the sum of the recognized
\* transfer amounts of all instructions; when the fee lookup fails at
\* transport level it falls back to the default fee (5000) and continues, so
\* the estimate is still the default fee plus the sum of the recognized
\* transfer amounts.  (Not so when the lookup throws: see C17_Witness.)
C17_Original ==
    /\ pc \notin {"idle", "estimateSpend"} => EstimateIsFeePlusTransfers(trace, tx, estimatedSpend)
    /\ CheckReturned => EstimateIsFeePlusTransfers(ret.calls, ret.tx, ret.result.estimatedSpend)

\* The fee lookup threw for a transaction with recognized transfers, and the
\* estimate the spend check worked with is the default fee alone.
C17_Witness ==
    /\ CheckReturned
    /\ "rpc.getFeeForMessage threw" \in Calls(ret.calls)
    /\ SumSpend(ret.tx.instructions) > 0
    /\ ret.result.estimatedSpend = Some(DEFAULT_FEE)
    /\ ret.result.allowed
    /\ DEFAULT_FEE + SumSpend(ret.tx.instructions) > maxPerTx


(***************************************************************************)
(* Claims about OnchainAuditLogger, checked under SpecAudit.               *)
(***************************************************************************)

\* The indices of the events on the ledger.
StoredIndexes == {e.eventIndex : e \in events}

\* C18: for one principal with writes serialized and no closeEvent, after n
\* successful logSecurityEvent calls the Authority's eventCount equals n,
\* exactly the events with eventIndex 0..n-1 exist, and the k-th call (from
\* 0) has returned eventIndex k.
C18_DenseSequence ==
    (serialized /\ closed = {}) =>
        /\ authority.eventCount = Len(history)
        /\ StoredIndexes = 0..(Len(history) - 1)
        /\ Cardinality(events) = Len(history)
        /\ \A e \in events : e.address = getEventPda(e.eventIndex)
        /\ \A k \in DOMAIN history : history[k] = k - 1
        /\ history # <<>> => authority.exists

\* MaxEvents calls have succeeded, one after the other, with no closeEvent.
C18_Witness ==
    /\ serialized
    /\ closed = {}
    /\ Len(history) = MaxEvents
    /\ authority.eventCount = MaxEvents
    /\ lret.kind = "resolved"
    /\ lret.op = "logSecurityEvent"
    /\ lret.eventIndex = MaxEvents - 1


\* C19: eventCount is monotonic and indices are never reused.  Over any
\* sequence of initialize, logSecurityEvent and closeEvent operations for one
\* principal, eventCount never decreases, increases by exactly 1 with each
\* logSecurityEvent that succeeds and with nothing else, is unchanged by
\* closeEvent, and no index that was assigned to an event, closed or not, is
\* assigned to a later one (the operations coming one after the other).
C19_MonotonicCount ==
    /\ [][ /\ authority'.eventCount >= authority.eventCount
           /\ history' # history
                 => /\ Len(history') = Len(history) + 1
                    /\ authority'.eventCount = authority.eventCount + 1
                    /\ lret'.op = "logSecurityEvent" /\ lret'.kind = "resolved"
           /\ history' = history => authority'.eventCount = authority.eventCount
           /\ (closed' # closed \/ events' \subseteq events)
                 => authority'.eventCount = authority.eventCount
           /\ authority.exists => authority'.exists
         ]_vars
    /\ [](serialized =>
            /\ \A j \in DOMAIN history : \A k \in DOMAIN history :
                  j < k => history[j] < history[k]
            /\ \A i \in closed : \E k \in DOMAIN history : history[k] = i
            /\ \A k \in DOMAIN history : history[k] < authority.eventCount)

\* An event was logged and closed, and two more were logged after that, one
\* call after the other: the closed index was not given out again.
C19_Witness ==
    /\ serialized
    /\ closed = {0}
    /\ history = <<0, 1, 2>>
    /\ StoredIndexes = {1, 2}
    /\ authority.eventCount = 3


\* Slot c's logSecurityEvent gets the outcome of its write in this step.
LogWriteEnds(c) == lpc[c] = "logEvent.send" /\ lpc'[c] = "idle"

\* C20: two logSecurityEvent calls for the same principal interleaved so that
\* both read eventCount = n.  The write that comes first to the free address
\* of index n is accepted and creates the event at index n; a write to an
\* occupied address fails at the storage layer and changes nothing, so of two
\* calls that read the same n, with no closeEvent of n, at most one succeeds.
\* In no interleaving do two events with the same index exist, is an existing
\* event overwritten, or does eventCount advance by more than the number of
\* successful writes.
C20_RaceOnEventCount ==
    /\ [][ \A c \in Slots :
             /\ (LogWriteEnds(c) /\ EventsAt(getEventPda(eventIndex[c])) # {})
                   => /\ lret'.kind = "rejected"
                      /\ lret'.slot = c
                      /\ authority' = authority
                      /\ events' = events
                      /\ history' = history
             /\ (LogWriteEnds(c) /\ lret'.kind = "resolved")
                   => /\ events' = events \cup {[address |-> getEventPda(eventIndex[c]),
                                                eventIndex |-> eventIndex[c]]}
                      /\ Cardinality(events') = Cardinality(events) + 1
                      /\ lret'.eventIndex = eventIndex[c]
             /\ \A e \in events :
                   \/ e \in events'
                   \/ /\ lpc[c] = "closeEvent.send" /\ lpc'[c] = "idle"
                      /\ e.address = getEventPda(eventIndex[c])
                   \/ \E d \in Slots \ {c} : lpc'[d] # lpc[d]
         ]_vars
    /\ [](/\ \A e1 \in events : \A e2 \in events :
                (e1.eventIndex = e2.eventIndex \/ e1.address = e2.address) => e1 = e2
          /\ authority.eventCount = Len(history)
          /\ \A j \in DOMAIN history : \A k \in DOMAIN history :
                (j < k /\ history[j] = history[k]) => history[j] \in closed
          /\ \A n \in EventIndexes : \A checksSeeds \in BOOLEAN :
                (authority.exists /\ n = authority.eventCount /\ EventsAt(getEventPda(n)) = {})
                    => ProgramLogEvent(getEventPda(n), checksSeeds).ok)

\* Both calls read eventCount 0; one has created the event at index 0 and the
\* other has just been refused by the ledger program.
C20_Witness ==
    /\ ~serialized
    /\ closed = {}
    /\ eventIndex[1] = 0
    /\ eventIndex[2] = 0
    /\ \A c \in Slots : lpc[c] = "idle"
    /\ history = <<0>>
    /\ authority.eventCount = 1
    /\ lret.kind = "rejected"
    /\ lret.op = "logSecurityEvent"
    /\ lret.text = "program error"


\* Slot c's initialize gets the answer of its probe in this step.
InitializeProbeEnds(c) ==
    lpc[c] = "initialize.getAccountInfo" /\ lpc'[c] # "initialize.getAccountInfo"

\* Slot c's initialize gets the outcome of its transaction in this step.
InitializeSendEnds(c) == lpc[c] = "initialize.send" /\ lpc'[c] # "initialize.send"

\* C21: initialize is idempotent.  An initialize whose probe finds the
\* principal's Authority (as every initialize called while it exists does,
\* an Authority never going away) submits no transaction, returns
\* 'already_initialized' and leaves the Authority record as it is; one whose
\* probe finds none submits the transaction, and when that succeeds the
\* Authority exists with eventCount 0.
C21_InitializeIdempotent ==
    [][ /\ authority.exists => authority'.exists
        /\ \A c \in Slots :
              /\ (InitializeProbeEnds(c) /\ authority.exists)
                    => /\ lpc'[c] # "initialize.send"
                       /\ lpc'[c] = (IF nested[c] THEN "getAuthority" ELSE "idle")
                       /\ ~nested[c]
                             => lret' = Resolved(c, "initialize", 0, "already_initialized")
                       /\ authority' = authority
                       /\ events' = events
                       /\ initialized'
              /\ (InitializeProbeEnds(c) /\ ~authority.exists)
                    => /\ lpc'[c] = "initialize.send"
                       /\ authority' = authority
              /\ (InitializeSendEnds(c) /\ authority' # authority)
                    => /\ ~authority.exists
                       /\ authority' = [exists |-> TRUE, eventCount |-> 0]
                       /\ initialized'
                       /\ ~nested[c] => lret' = Resolved(c, "initialize", 0, "signature")
              /\ (InitializeSendEnds(c) /\ authority' = authority)
                    => /\ lpc'[c] = "idle"
                       /\ lret'.kind = "rejected"
                       /\ lret'.slot = c
      ]_vars

\* initialize was called on an Authority that has logged events, and has
\* returned 'already_initialized'.
C21_Witness ==
    /\ \E c \in Slots : lret = Resolved(c, "initialize", 0, "already_initialized")
    /\ authority.exists
    /\ authority.eventCount = 2
    /\ history = <<0, 1>>
    /\ \A c \in Slots : lpc[c] = "idle"


\* Slot c's closeEvent gets the outcome of its transaction in this step.
CloseWriteEnds(c) == lpc[c] = "closeEvent.send" /\ lpc'[c] # "closeEvent.send"

\* Slot c's logSecurityEvent leaves the wait for its transaction in this step.
LogWriteLeft(c) == lpc[c] = "logEvent.send" /\ lpc'[c] # "logEvent.send"

\* C24: a failed write is surfaced and leaves no partial state.  When the
\* transaction of logSecurityEvent or of closeEvent fails (it does not reach
\* the ledger, or the ledger program refuses it), the call rejects and makes no
\* further attempt, eventCount and the events are as before, and the index
\* a fresh read of eventCount gives is the index that was tried (the calls
\* coming one after the other); every logSecurityEvent takes its index from
\* the eventCount it has just read.
C24_FailedWriteLeavesNoState ==
    [][ \A c \in Slots :
          /\ (LogWriteLeft(c) /\ history' = history)
                => /\ lpc'[c] = "idle"
                   /\ lret'.kind = "rejected"
                   /\ lret'.slot = c
                   /\ lret'.op = "logSecurityEvent"
                   /\ authority' = authority
                   /\ events' = events
                   /\ serialized => authority'.eventCount = eventIndex[c]
          /\ (CloseWriteEnds(c) /\ events' = events)
                => /\ lpc'[c] = "idle"
                   /\ lret'.kind = "rejected"
                   /\ lret'.slot = c
                   /\ lret'.op = "closeEvent"
                   /\ authority' = authority
                   /\ closed' = closed
          /\ (lpc[c] = "getAuthority" /\ lpc'[c] = "logEvent.send")
                => eventIndex'[c] = authority.eventCount
          /\ (lpc[c] = "getAuthority" /\ lpc'[c] # "getAuthority")
                => authority' = authority /\ events' = events
      ]_vars

\* The write of the event at index 1 has failed, and the logSecurityEvent
\* called after that has read eventCount again and waits for its write to
\* index 1.
C24_Witness ==
    /\ serialized
    /\ initialized
    /\ authority.eventCount = 1
    /\ history = <<0>>
    /\ \E c \in Slots :
          /\ lret = Rejected(c, "logSecurityEvent", "send failed")
          /\ \E d \in Slots :
                /\ lpc[d] = "logEvent.send"
                /\ eventIndex[d] = 1
                /\ \A o \in Slots \ {d} : lpc[o] = "idle"

(***************************************************************************)
(* Claims about address derivation, checked under SpecAddresses.           *)
(***************************************************************************)

\* C23: address derivation is deterministic and injective.  The Authority
\* address is a function of the principal only (the same from every logger
\* of the principal and from the static accessor, different for different
\* principals), the event address is a function of the principal and the
\* index only, different indices of a principal and different principals
\* give different addresses, and no event address is an Authority address.
C23_DerivationInjective ==
    \A d1 \in derived : \A d2 \in derived :
        /\ (d1.fn = d2.fn /\ d1.principal = d2.principal /\ d1.eventIndex = d2.eventIndex)
              => d1.address = d2.address
        /\ d1.address = d2.address
              => /\ d1.fn = d2.fn
                 /\ d1.principal = d2.principal
                 /\ d1.eventIndex = d2.eventIndex
        /\ d1.fn = "getAuthorityPda" => d1.address = deriveAuthorityPda(d1.principal).address

\* The addresses of the events 0 and 256 of one principal have been derived,
\* one by a logger and one by the static accessor.
C23_Witness ==
    \E d1 \in derived : \E d2 \in derived :
        /\ d1.fn = "getEventPda" /\ d2.fn = "getEventPda"
        /\ d1.principal = d2.principal
        /\ d1.eventIndex = 0 /\ d2.eventIndex = 256
        /\ d1.via = 0 /\ d2.via # 0
        /\ d1.address # d2.address

(***************************************************************************)
(* Claims about the digest of the details, checked under SpecDigest.       *)
(***************************************************************************)

VerifyReturned == ret.op = "verifyEventDetails"

\* C22 as stated: verifyEventDetails(event, details) is true for the details
\* the event was logged with and false for any details string that differs
\* from them.  (Not so: see C22_Witness.)
C22_Original ==
    VerifyReturned => (ret.result <=> ret.details = ret.logged)

\* C22, amended: verifyEventDetails(event, details) returns a boolean, true
\* if and only if the digest of the UTF-8 bytes of details equals
\* event.actionHash; for the event written by logSecurityEvent it is true
\* for the details logged and false for every details string whose UTF-8
\* bytes differ from theirs.
C22_VerifyMatchesDigest ==
    VerifyReturned =>
        /\ ret.result \in BOOLEAN
        /\ ret.result <=> (ret.event.actionHash = sha256(Utf8(ret.details)))
        /\ ret.event.actionHash = hashDetails(ret.logged)
        /\ ret.details = ret.logged => ret.result
        /\ ret.result <=> (Utf8(ret.details) = Utf8(ret.logged))
        /\ ret.event.detailsLen = Len(Utf8(ret.logged))

\* An event logged with a details string that holds a surrogate without its
\* pair verifies against another such string.
C22_Witness ==
    /\ VerifyReturned
    /\ ret.logged = <<97, 55357>>
    /\ ret.details = <<97, 56832>>
    /\ ret.result

(***************************************************************************)
(* Claims about GuardedSolanaAgent, checked under SpecWrapper.             *)
(***************************************************************************)

\* Slot c's call of the wrapper method op starts in this step.
WrapperStarts(c, op) ==
    /\ wpc[c] = "idle"
    /\ wpc'[c] # "idle"
    /\ wcall'[c].action = op

\* Slot c's call returns in this step.
WrapperReturns(c) == wpc[c] # "idle" /\ wpc'[c] = "idle"

\* The daily budget that is left when a call starts.
RemainingDaily == maxDaily - maybeResetDaily.dailySpend

OverLimit(lamports) == lamports > maxPerTx \/ lamports > RemainingDaily

\* Only transfers have been called, one after the other.
TransfersInSequence == wserial /\ usedOps \subseteq {"transfer"}

\* C25: a transfer over the per-transaction limit or over the daily budget
\* left invokes no kit.transfer, records no spend and returns success=false;
\* the recorded spend grows only in the step in which a kit method resolves;
\* and while transfers are called one after the other the recorded
\* dailySpend never exceeds maxDailySpend.
C25_SequentialTransfersKeepCap ==
    /\ [](TransfersInSequence => dailySpend <= maxDaily)
    /\ [][/\ \A c \in WSlots :
               (WrapperStarts(c, "transfer") /\ OverLimit(wcall'[c].lamports)) =>
                   /\ ~ran'[c]
                   /\ wpc'[c] = "audit.log"
                   /\ wcall'[c].outcome.kind = "error"
                   /\ dailySpend' = maybeResetDaily.dailySpend
          /\ \A c \in WSlots :
               (WrapperReturns(c) /\ wcall[c].outcome.kind = "error") =>
                   /\ ~wret'[c].success
                   /\ dailySpend' = dailySpend
          /\ dailySpend' > dailySpend =>
               \E c \in WSlots : /\ wpc[c] \in {"kit.transfer", "kit.stake"}
                                 /\ wcall'[c].outcome.kind = "success"
                                 /\ dailySpend' = maybeResetDaily.dailySpend + wcall[c].lamports
       ]_vars

\* After a transfer of 2 of the 3 lamports of the day, a second transfer of
\* 2 has been refused for the daily limit, without a call of the kit.
C25_Witness ==
    /\ TransfersInSequence
    /\ dailySpend = 2
    /\ calls = 2
    /\ wpc[1] = "idle"
    /\ ~ran[1]
    /\ ~wret[1].success
    /\ wret[1].reason = Some("Daily spending limit exceeded")

\* Slot c's execute learns in this step that its custom check denies.
CustomCheckDenies(c) ==
    /\ wpc[c] = "customCheck"
    /\ wpc'[c] # "customCheck"
    /\ wcall[c].check.kind = "returns"
    /\ ~wcall[c].check.allowed

\* C26: when the custom check of an execute returns allowed=false, onBlocked
\* (if configured) is called with the action and the reason; without dryRun
\* the action function is not invoked and execute returns success=false,
\* blocked=true with the check's reason; with dryRun the action function is
\* invoked and the result execute returns carries the warning
\* '[DRY RUN] Would block: <reason>'.
C26_CustomCheckBlocks ==
    [][\A c \in WSlots :
          /\ CustomCheckDenies(c) =>
               /\ hasOnBlocked =>
                    /\ notified'[c].has
                    /\ notified'[c].value.action = wcall[c].action
                    /\ wcall[c].check.reason.has =>
                         notified'[c].value.reason = wcall[c].check.reason.value
               /\ ~dryRun =>
                    /\ WrapperReturns(c)
                    /\ ~ran'[c]
                    /\ wret'[c].success = FALSE
                    /\ wret'[c].blocked = Some(TRUE)
                    /\ wret'[c].reason = wcall[c].check.reason
                    /\ auditLog' = auditLog
               /\ dryRun =>
                    /\ wpc'[c] = "fn"
                    /\ ran'[c]
                    /\ wcall'[c].warnings = <<DryRunWarning(wcall[c].check.reason)>>
          /\ (WrapperReturns(c) /\ wpc[c] = "audit.log") =>
               wret'[c].warnings = wcall[c].warnings
          /\ (wpc[c] \in {"fn", "audit.log"} /\ ~WrapperReturns(c)) =>
               wcall'[c].warnings = wcall[c].warnings
      ]_vars

\* In dry-run mode an execute whose check denied has run its action
\* function and returned success with the warning, after onBlocked.
C26_Witness ==
    /\ dryRun
    /\ hasOnBlocked
    /\ wpc[1] = "idle"
    /\ ran[1]
    /\ wret[1].success
    /\ wret[1].warnings = <<DryRunWarning(Some("Custom block"))>>
    /\ notified[1] = Some([action |-> "test", reason |-> "Custom block"])

\* Every call made so far has returned.
WrapperAtRest == \A c \in WSlots : wpc[c] = "idle"

\* C28 as stated: whatever the interleaving of transfer calls, the recorded
\* dailySpend never exceeds maxDailySpend.  (Not so in the code: see
\* C28_Witness.)
C28_Original ==
    usedOps \subseteq {"transfer"} => dailySpend <= maxDaily

\* Two transfers of 2 lamports, the second called while the first awaits
\* kit.transfer, have both returned success, and 4 lamports are recorded
\* against a cap of 3.
C28_Witness ==
    /\ ~wserial
    /\ usedOps = {"transfer"}
    /\ WrapperAtRest
    /\ \A c \in WSlots : wret[c].success /\ ran[c]
    /\ maxDaily = 3
    /\ dailySpend = 4

\* C29 as stated: for transfer and stake calls made one after the other, a
\* call that would push the recorded dailySpend above maxDailySpend invokes
\* no kit method, and dailySpend <= maxDailySpend after every call.  (Not so
\* in the code: see C29_Witness.)
C29_Original ==
    /\ [][\A c \in WSlots :
             (/\ wserial
              /\ WrapperStarts(c, "transfer") \/ WrapperStarts(c, "stake")
              /\ wcall'[c].lamports > RemainingDaily) => ~ran'[c]
       ]_vars
    /\ []((wserial /\ usedOps \subseteq {"transfer", "stake"}) => dailySpend <= maxDaily)

\* After a transfer of 2 of the 3 lamports of the day, a stake of 2 has
\* called kit.stake and returned success: 4 lamports are recorded.
C29_Witness ==
    /\ wserial
    /\ usedOps = {"transfer", "stake"}
    /\ WrapperAtRest
    /\ wret[1].success
    /\ ran[1]
    /\ auditLog[Len(auditLog)].action = "stake"
    /\ maxDaily = 3
    /\ dailySpend = 4

\* The reasons of a transfer refused for a spending limit.
LimitReasons ==
    {Some("Per-transaction limit exceeded"), Some("Daily spending limit exceeded")}

\* C30 as stated: the result of a transfer refused for a spending limit has
\* blocked=true, and the configured onBlocked callback has been invoked with
\* the action and the reason.  (Not so in the code: see C30_Witness.)
C30_Original ==
    \A c \in WSlots :
        (wpc[c] = "idle" /\ wret[c].reason \in LimitReasons) =>
            /\ wret[c].blocked = Some(TRUE)
            /\ hasOnBlocked =>
                 notified[c] = Some([action |-> "transfer", reason |-> wret[c].reason.value])

\* With onBlocked configured, a transfer above the per-transaction limit has
\* returned success=false with no blocked flag, and onBlocked was not called.
C30_Witness ==
    /\ hasOnBlocked
    /\ wpc[1] = "idle"
    /\ ~wret[1].success
    /\ wret[1].reason = Some("Per-transaction limit exceeded")
    /\ wret[1].blocked = Undefined
    /\ notified[1] = Undefined
    /\ ~ran[1]

(***************************************************************************)
(* Claims about AgentGuard.checkTransaction, checked under SpecGuard.      *)
(***************************************************************************)

\* checkTransaction returns in this step.
GuardReturns == gpc # "idle" /\ gpc' = "idle"

\* C27: a checkTransaction call that returns has appended exactly one entry
\* to the local audit log, in the step in which it returns, after
\* firewall.check has returned its verdict; the entry is under the action
\* name given, and its firewallResult has the allowed flag and the reason
\* of the GuardResult returned, which are the firewall's; nothing else
\* writes to the log.
C27_OneEntryPerCheck ==
    [][/\ GuardReturns =>
            /\ Len(auditLog') = Len(auditLog) + 1
            /\ SubSeq(auditLog', 1, Len(auditLog)) = auditLog
            /\ pc = "idle"
            /\ ret.op = "firewall.check"
            /\ ret.tx.instructions = gcall.tx.instructions
            /\ gret'.firewall = ret.result
            /\ gret'.allowed = ret.result.allowed
            /\ gret'.reason = ret.result.reason
            /\ LET entry == auditLog'[Len(auditLog')] IN
                 /\ entry.action = gcall.action
                 /\ entry.firewallResult.allowed = gret'.allowed
                 /\ entry.firewallResult.reason = gret'.reason
                 /\ entry.details.allowed = gret'.allowed
                 /\ gret'.auditId = Some(entry.id)
       /\ auditLog' # auditLog => GuardReturns
       /\ (gpc = "firewall.check" /\ gpc' = "firewall.check") => auditLog' = auditLog
      ]_vars

\* Two checks have returned, the first allowed and the second denied under
\* the action name 'transfer': the log holds one entry for each.
C27_Witness ==
    /\ gpc = "idle"
    /\ Len(auditLog) = 2
    /\ auditLog[1].firewallResult.allowed
    /\ ~auditLog[2].firewallResult.allowed
    /\ auditLog[2].action = "transfer"
    /\ auditLog[2].firewallResult.reason = gret.reason
    /\ ~gret.allowed
    /\ gret.auditId = Some(2)

(***************************************************************************)
(* More claims about GuardedSolanaAgent, checked under SpecWrapper.        *)
(***************************************************************************)

\* C31 as stated: every call of the wrapper that returns, whether its
\* action succeeded, threw or was blocked by the custom check, has appended
\* one entry to the audit log and returns the id of that entry.  (Not so in
\* the code: see C31_Witness.)
C31_Original ==
    [][\A c \in WSlots :
          WrapperReturns(c) =>
              /\ Len(auditLog') = Len(auditLog) + 1
              /\ wret'[c].auditId = Some(auditLog'[Len(auditLog')].id)
      ]_vars

\* The one call made, an execute whose custom check denied, has returned
\* blocked=true with no auditId; the audit log is empty.
C31_Witness ==
    /\ calls = 1
    /\ usedOps = {"execute"}
    /\ WrapperAtRest
    /\ wret[1].blocked = Some(TRUE)
    /\ wret[1].auditId = Undefined
    /\ ~ran[1]
    /\ auditLog = <<>>

(***************************************************************************)
(* More claims about SpendingLimits, checked under SpecLimits.             *)
(***************************************************************************)

\* C32: the remainingDaily that check reports is never negative, also when
\* dailySpend exceeds maxDaily: a denied result reports
\* max(0, maxDaily - dailySpend), an allowed one maxDaily - dailySpend -
\* amount, dailySpend being the ledger's after the rollover of the check.
C32_RemainingNeverNegative ==
    ret.op = "check" =>
        /\ ret.currentDailySpend = dailySpend
        /\ ret.remainingDaily >= 0
        /\ ~ret.allowed =>
             ret.remainingDaily = (IF maxDaily - dailySpend > 0
                                   THEN maxDaily - dailySpend ELSE 0)
        /\ ret.allowed => ret.remainingDaily = maxDaily - dailySpend - ret.amount

\* A check on a ledger whose recorded spend is above the cap has been
\* denied and reports 0.
C32_Witness ==
    /\ ret.op = "check"
    /\ dailySpend > maxDaily
    /\ maxDaily > 0
    /\ ~ret.allowed
    /\ ret.remainingDaily = 0

(***************************************************************************)
(* Claims about transfer recognition, checked under SpecTransfer.          *)
(***************************************************************************)

\* The instruction read is a native transfer: it targets the system
\* program, and its payload has 12 bytes or more, the first four of them
\* the tag 2, lowest byte first.
IsNativeTransfer ==
    /\ ret.programId = SystemProgramId
    /\ Len(ret.data) >= 12
    /\ SubSeq(ret.data, 1, 4) = <<2, 0, 0, 0>>

\* C33: an instruction contributes its amount, the bytes 4..11 of its
\* payload read as an unsigned little-endian number, when it is a native
\* transfer, and 0 otherwise, in legacy and versioned transactions alike.
C33_TransferRecognition ==
    ret.op = "extractSpend" =>
        /\ IsNativeTransfer => LittleEndian(ret.spend, 8) = SubSeq(ret.data, 5, 12)
        /\ ~IsNativeTransfer => ret.spend = 0
        /\ ret.spend >= 0

\* A compiled instruction for the system program with tag 2, the amount
\* bytes 02 00 03 and a trailing byte has been read as 196610 lamports.
C33_Witness ==
    /\ lastOp.op = "extractSpendFromCompiledInstruction"
    /\ ret.op = "extractSpend"
    /\ IsNativeTransfer
    /\ Len(ret.data) = 13
    /\ ret.spend = 196610

(***************************************************************************)
(* Claims about the decoding of stored records, checked under SpecDecode.  *)
(***************************************************************************)

\* The bytes read begin with the discriminator of the record asked for.
DiscriminatorMatches ==
    /\ ~ret.accountInfo.null
    /\ Len(ret.accountInfo.data) >= 8
    /\ Subarray(ret.accountInfo.data, 0, 8) = ret.expected

\* C34 as stated: getAuthority and the event readers return null for stored
\* bytes whose leading 8 bytes are not the discriminator of the record they
\* decode.  (Not so in the code: see C34_Witness.)
C34_Original ==
    ret.op = "decode" => (~DiscriminatorMatches => ret.result.null)

\* getAuthority has decoded the bytes of a SecurityEvent record as an
\* Authority, with an event count made of the event's type and digest.
C34_Witness ==
    /\ lastOp.op = "getAuthority"
    /\ ret.op = "decode"
    /\ Subarray(ret.accountInfo.data, 0, 8) = SECURITY_EVENT_DISCRIMINATOR
    /\ ~ret.result.null
    /\ ret.result.authority = Plain(KeyA)
    /\ ret.result.eventCount.bytes # <<>>

(***************************************************************************)
(* Claims about the trails of a ledger, checked under SpecTrail.           *)
(***************************************************************************)

TrailWrites == {"initialize", "logSecurityEvent", "closeEvent"}

\* The transaction names, besides the system program, only the Authority
\* address and an event address derived from publicKey and publicKey itself,
\* and publicKey is its one signer.
OwnInstruction(sent, publicKey) ==
    LET keys == sent.ix.keys
        signerAt == IF sent.ix.data = IX_INITIALIZE THEN 2 ELSE 3
    IN  /\ sent.signers = <<publicKey>>
        /\ sent.ix.programId = PROGRAM_ID
        /\ keys[1].pubkey = deriveAuthorityPda(publicKey).address
        /\ keys[signerAt].pubkey = publicKey
        /\ \A i \in 1..Len(keys) : keys[i].isSigner <=> i = signerAt
        /\ \A i \in 1..Len(keys) : keys[i].isWritable => i <= signerAt
        /\ sent.ix.data # IX_INITIALIZE
               => \E i \in 0..MaxEvents : keys[2].pubkey = deriveEventPda(publicKey, i).address

\* The Authority and the events of a principal, as the ledger holds them.
TrailOf(ledger, k) ==
    [a \in {deriveAuthorityPda(k).address}
           \cup {deriveEventPda(k, i).address : i \in TrailIndexes} |-> ledger[a]]

\* C35: every transaction initialize, logSecurityEvent and closeEvent send
\* names only the Authority and event addresses derived from the logger's
\* own wallet and is signed by that wallet alone, and a write of a logger
\* leaves the Authority and the events of every other principal as they were.
C35_WriteRestricted ==
    /\ [](ret.op \in TrailWrites
             => \A i \in 1..Len(ret.sent) : OwnInstruction(ret.sent[i], wallet[ret.logger]))
    /\ [][lastOp'.op \in TrailWrites
             => \A k \in TrailPrincipals \ {wallet[lastOp'.logger]} :
                    TrailOf(accounts', k) = TrailOf(accounts, k)]_vars

\* The logger of the second principal has initialized and logged an event in
\* one call, on a ledger that holds events of the first principal.
C35_Witness ==
    /\ ret.op = "logSecurityEvent"
    /\ ret.logger = 3
    /\ ret.result = "signature"
    /\ Len(ret.sent) = 2
    /\ EventsLogged(accounts, {KeyA}) >= 1
    /\ EventsLogged(accounts, {KeyB}) = 1

\* getEvents(limit) returned the existing events among the `count` highest
\* indices of the principal's trail, most recent first, and left the ledger
\* as it was.
ReturnedHighest(count) ==
    LET r == ret'.result.events
        k == wallet[lastOp'.logger]
        n == EventsLogged(accounts, {k})
    IN  /\ ~ret'.result.threw
        /\ \A i \in 1..(Len(r) - 1) : r[i].event.eventIndex > r[i + 1].event.eventIndex
        /\ {r[i].event.eventIndex : i \in 1..Len(r)}
               = {j \in (n - Min(count, n))..(n - 1) :
                      ~accounts[deriveEventPda(k, j).address].null}
        /\ accounts' = accounts

\* C36 as stated: for every limit >= 0, getEvents(limit) returns at most
\* limit events, the existing ones among the min(limit, eventCount) highest
\* indices in strictly descending order, closed events omitted; without a
\* limit it returns all existing events; the ledger is unchanged.  (Not so
\* in the code for limit = 0: see C36_Witness.)
C36_Original ==
    [][lastOp'.op = "getEvents"
           => IF ret'.limit.has
              THEN Len(ret'.result.events) <= ret'.limit.n /\ ReturnedHighest(ret'.limit.n)
              ELSE ReturnedHighest(MaxEvents)]_vars

\* What the code does keep: the same, for every limit but 0.
C36_NonZeroLimit ==
    [][(lastOp'.op = "getEvents" /\ ret'.limit # Limit(0))
           => IF ret'.limit.has
              THEN Len(ret'.result.events) <= ret'.limit.n /\ ReturnedHighest(ret'.limit.n)
              ELSE ReturnedHighest(MaxEvents)]_vars

\* getEvents(0) has returned two events.
C36_Witness ==
    /\ ret.op = "getEvents"
    /\ ret.limit = Limit(0)
    /\ Len(ret.result.events) = 2

\* The account at the Authority address of a principal is absent or holds
\* at least the bytes of an Authority record.
WholeAuthority(ledger, k) ==
    LET accountInfo == ledger[deriveAuthorityPda(k).address] IN
    accountInfo.null \/ Len(accountInfo.data) >= 8 + 49

\* C37 as stated: on every ledger and for every limit, the static accessor
\* returns for principal P what getEvents(limit) returns on a logger whose
\* wallet is P, the empty result included when P's Authority is absent or
\* its stored data is too short to decode.  (Not so in the code for data too
\* short: see C37_Witness.)
C37_Original ==
    [][lastOp'.op = "getEventsForAuthority"
           => \A l \in Loggers :
                  wallet[l] = ret'.principal
                      => ret'.result = getEvents(accounts, l, ret'.limit)]_vars

\* What the code does keep: the same, on a ledger whose account at P's
\* Authority address is absent or whole.
C37_AgreeOnWholeAuthority ==
    [][(lastOp'.op = "getEventsForAuthority" /\ WholeAuthority(accounts, ret'.principal))
           => \A l \in Loggers :
                  wallet[l] = ret'.principal
                      => ret'.result = getEvents(accounts, l, ret'.limit)]_vars

\* The static accessor has thrown on a principal whose instance reader
\* returns no events.
C37_Witness ==
    /\ ret.op = "getEventsForAuthority"
    /\ ret.result.threw
    /\ ~WholeAuthority(accounts, ret.principal)
    /\ \A l \in Loggers :
           wallet[l] = ret.principal => getEvents(accounts, l, ret.limit) = Returned(<<>>)

(***************************************************************************)
(* More claims about TransactionFirewall, checked under Spec.              *)
(***************************************************************************)

\* C38: no step of TransactionFirewall.check adds to the ledger: dailySpend
\* is left as it was, but for the rollover to 0 on a new calendar day, and
\* the approval of the ledger is not touched; and the spend verdict a check
\* gives is the one the ledger it leaves behind gives for the same estimate,
\* so that checking again without recordSpend gets the same verdict.
C38_CheckNeverRecordsSpend ==
    [][lastOp'.op = "firewall.check"
           => /\ \/ dailySpend' = dailySpend
                 \/ lastResetDate # getTodayDate /\ dailySpend' = 0
              /\ approved' = approved
              /\ (pc = "estimateSpend" /\ pc' # pc)
                     => LET est == IF pc' = "idle" THEN ret'.result.estimatedSpend
                                   ELSE estimatedSpend'
                            denied == pc' = "idle" /\ ~ret'.result.allowed
                        IN  denied <=> ~checkResult(dailySpend', est.value).allowed]_vars

\* A check was denied by the daily cap alone, on a ledger that holds
\* recorded spend: its estimate is within the per-transaction cap and within
\* the daily cap taken by itself.
C38_Witness ==
    /\ ret.op = "firewall.check"
    /\ ~ret.result.allowed
    /\ ret.result.estimatedSpend.has
    /\ ret.result.estimatedSpend.value <= maxPerTx
    /\ ret.result.estimatedSpend.value <= maxDaily
    /\ dailySpend > 0
    /\ dailySpend + ret.result.estimatedSpend.value > maxDaily

(***************************************************************************)
(* More claims about ProgramAllowlist, checked under SpecRegistry.         *)
(***************************************************************************)

\* C39: no operation takes an entry out of the blocklist, whose size
\* therefore never decreases, and every id that was given to the blocklist,
\* in the configuration or by addToBlocklist, is denied with status
\* 'blocked' from then on, whatever addToAllowlist and addToBlocklist calls
\* follow.
C39_OnceBlockedAlwaysBlocked ==
    /\ [][/\ blocklist \subseteq blocklist'
          /\ Cardinality(blocklist') >= Cardinality(blocklist)
          /\ \A id \in ProgramIds :
                 Allowlist_checkResult(id).status = "blocked"
                     => (Allowlist_checkResult(id).status = "blocked")']_vars
    /\ [](\A id \in blockedIds :
              /\ Allowlist_checkResult(id).status = "blocked"
              /\ ~Allowlist_checkResult(id).allowed)

\* addToAllowlist(id) has just succeeded for an id that was given to the
\* blocklist, and check(id) is still denied as 'blocked'.
C39_Witness ==
    /\ lastOp.op = "addToAllowlist"
    /\ ret.value
    /\ lastOp.programId \in blockedIds
    /\ toLowerCase(lastOp.programId) \in allowlist.ids
    /\ Allowlist_checkResult(lastOp.programId).status = "blocked"

\* C40 as stated: the verdict of check(id) rests on an entry for that very
\* id: a 'blocked' id was given to the blocklist, a 'system_safe' id is one
\* of the system programs, and an id allowed in allowlist mode was given to
\* the allowlist; an id that differs from such an entry in letter case only
\* gets no verdict on its account.  (Not so in the code: see C40_Witness.)
C40_Original ==
    ret.op = "allowlist.check"
        => LET id == ret.result.programId IN
           /\ ret.result.status = "blocked"
                  => id \in blockedIds \cup KNOWN_MALICIOUS_PROGRAMS
           /\ ret.result.status = "system_safe" => id \in SAFE_SYSTEM_PROGRAMS
           /\ (ret.result.status = "allowed" /\ ~allowlist.null) => id \in allowedIds

\* check has allowed, in allowlist mode, an id that was never given to the
\* allowlist and is no system program: it differs in letter case from an id
\* that was.
C40_Witness ==
    /\ ret.op = "allowlist.check"
    /\ ~allowlist.null
    /\ ret.result.allowed
    /\ ret.result.status = "allowed"
    /\ ret.result.programId \notin allowedIds
    /\ ret.result.programId \notin SAFE_SYSTEM_PROGRAMS
    /\ \E other \in allowedIds :
           /\ other # ret.result.programId
           /\ toLowerCase(other) = toLowerCase(ret.result.programId)

====
